---- MODULE Spec2Model ----
(***************************************************************************)
(* API gateway of the shopping-list microservices: the file based service  *)
(* registry, the per-service circuit breaker and the forwarding handler    *)
(* proxyToService.  A forwarded request is one handler that suspends once, *)
(* at "await operation()": the part before the await is one atomic step    *)
(* (Node runs a handler without preemption up to its first suspension),    *)
(* the continuation after the await is a second atomic step.               *)
(***************************************************************************)
EXTENDS Integers, Sequences, FiniteSets, TLC

VARIABLES
    now,              \* Date.now()
    services,         \* content of services-registry.json: name -> record
    circuitBreakers,  \* APIGateway.circuitBreakers (Map): name -> breaker
    inflight,         \* forwarded requests suspended at "await operation()"
    hist,             \* per name: how the calls at the breaker ended, in
                      \* order: "S" operation resolved, "F" operation
                      \* rejected, "X" call short-circuited
    invocations,      \* per name: how often the wrapped operation was invoked
    requests,         \* number of requests that reached the breaker so far
    lastRequest,      \* the last forwarded request that came to an end:
                      \* what executeWithCircuitBreaker did, and the response
    lastCall,         \* the last call of the registry API and what it
                      \* returned or threw
    lastWrite,        \* per name: the last completed registry write to that
                      \* name and the record its writer computed for it
    pending,          \* per process: the registry write it is in the middle
                      \* of, between readRegistry and writeRegistry
    sweep,            \* performHealthChecks in progress: the names still to
                      \* probe and the outcome of the probes made
    procs,            \* per process: running, or how its exit went
    downstream,       \* per service: how it treats a connection just now
    handler,          \* the gateway's own request in progress (dashboard,
                      \* search, item search) or the last one answered
    routed,           \* the last inbound request matched against the
                      \* forwarding routes, and where it was sent
    lists,            \* the list service's lists.json: per id, the stored
                      \* list, or that there is none (yet, or any more)
    listOps,          \* per connection of the list service: the handler in
                      \* progress, with its own copies of what it read
    listReply,        \* per connection: the last response sent on it
    listRequests      \* requests the list service has accepted so far

registryVars == <<lastCall, lastWrite, pending, sweep>>
gatewayVars == <<procs, downstream, handler, routed>>
listVars == <<lists, listOps, listReply, listRequests>>

vars == <<now, services, circuitBreakers, inflight, hist, invocations,
          requests, lastRequest, lastCall, lastWrite, pending, sweep,
          procs, downstream, handler, routed,
          lists, listOps, listReply, listRequests>>

----------------------------------------------------------------------------
(* Values of the list service *)

(* the authenticated users (req.user.id), the ids a list can get (uuids,   *)
(* never handed out twice) and the catalog items of the item service       *)
Users == {"u1", "u2"}
ListIds == {"L1", "L2"}
CatalogItems == {"a", "b"}

(* the connections on which requests are handled at the same time *)
Connections == {1, 2}

(* lists.json holds no document under the id: none was created, or the one *)
(* that was has been deleted                                               *)
NoList == [userId |-> "nobody", status |-> "none", items |-> <<>>,
           summary |-> [totalItems |-> 0, purchasedItems |-> 0]]
Gone == [NoList EXCEPT !.status = "deleted"]

NoOp == [op |-> "none"]
NoReply == [seq |-> 0]

(* the list service has created no list and handles no request *)
ListsIdle ==
    /\ lists = [i \in ListIds |-> NoList]
    /\ listOps = [c \in Connections |-> NoOp]
    /\ listReply = [c \in Connections |-> NoReply]
    /\ listRequests = 0

----------------------------------------------------------------------------
(* Bounds of the model *)

MaxTicks == 9
MaxRequests == 5
MaxInFlight == 2
MaxRegistryTicks == 1

(* Program constants *)

FailureThreshold == 3
Cooldown == 30000
Timeout == 10000

(* The clock advances in steps of one forward timeout; it starts well past *)
(* one cooldown, as an epoch timestamp does.                               *)
TickStep == Timeout
StartTime == Cooldown + TickStep
MaxTime == StartTime + MaxTicks * TickStep

ServiceNames == {"user-service", "item-service"}
AllServices == ServiceNames \cup {"list-service"}
Urls == {"http://localhost:3001"}
ServiceUrls == {"http://localhost:3001", "http://localhost:3003"}
Pids == {101}
Processes == {101, 102}
Slots == 1..MaxInFlight

NoService == [absent |-> TRUE]
NoBreaker == [absent |-> TRUE]
NoCall == [absent |-> TRUE]
NoRequest == [absent |-> TRUE]
NoApiCall == [absent |-> TRUE]
NoWrite == [absent |-> TRUE]
NoOperation == [absent |-> TRUE]
NoSweep == [absent |-> TRUE]
NoHandler == [absent |-> TRUE]
NoRoute == [absent |-> TRUE]
NotReached == [kind |-> "not-reached"]
NotInvoked == [kind |-> "not-invoked"]
Running == [state |-> "running"]

(* Status codes a downstream answers with: axios resolves on 2xx and       *)
(* rejects, with error.response set, on every other status.                *)
OkStatuses == {200}
ErrorStatuses == {404}

(* Errors, by what proxyToService's catch block can tell apart: the        *)
(* message, error.code (ECONNREFUSED for a refused connection; another     *)
(* code, such as EHOSTUNREACH, for a host that cannot be reached) and      *)
(* error.response with the status and the body the downstream sent.        *)
CircuitOpenError == [kind |-> "circuit-open"]
NotFoundError == [kind |-> "not-found"]
UnavailableError == [kind |-> "unavailable"]
RefusedError == [kind |-> "refused"]
UnreachableError == [kind |-> "unreachable"]
TimeoutError == [kind |-> "timeout"]
ErrorData(status) == [success |-> FALSE, status |-> status]
HttpError(status) ==
    [kind |-> "http", status |-> status, data |-> ErrorData(status)]

----------------------------------------------------------------------------
(* Service registry *)

(* how a call of the registry API ends; what a call without a return      *)
(* value returns, and what a field that was never set reads as             *)
Returned(value) == [threw |-> FALSE, value |-> value]
Undefined == "undefined"

(* The registry file: a table, name -> record, or a file that is not there *)
(* or whose content cannot be read as JSON.                                *)
MissingFile == [file |-> "missing"]
UnreadableFile == [file |-> "unreadable"]
Readable(file) == file # MissingFile /\ file # UnreadableFile
EmptyRegistry == [n \in ServiceNames |-> NoService]

(* readRegistry: the content of the file; {} when reading or parsing fails *)
readRegistry(file) == IF Readable(file) THEN file ELSE EmptyRegistry

(* writeRegistry: the file becomes the copy, whatever it held *)
writeRegistry(file, copy) == copy

(* variant: a file that is not there is not created *)
writeOutcomesExisting(file, copy) ==
    IF file = MissingFile THEN {file} ELSE {writeRegistry(file, copy)}

(* what the file holds after writeRegistry: the copy, or, where a file     *)
(* cannot be read, possibly what it held, the error being caught           *)
writeOutcomes(file, copy) ==
    IF file = UnreadableFile
    THEN {writeRegistry(file, copy), file}
    ELSE {writeRegistry(file, copy)}

(* The record register stores.  serviceInfo is stood for by its url; its   *)
(* version and endpoints are copied along and read by nothing.             *)
ServiceRecord(url, pid, t) ==
    [url |-> url, registeredAt |-> t, lastHealthCheck |-> t,
     healthy |-> TRUE, pid |-> pid]

(* variant: a record that exists keeps its health flag *)
registerKeepingHealth(svcs, serviceName, url, pid, t) ==
    [svcs EXCEPT ![serviceName] =
        IF svcs[serviceName] = NoService THEN ServiceRecord(url, pid, t)
        ELSE [ServiceRecord(url, pid, t) EXCEPT
                 !.healthy = svcs[serviceName].healthy]]

(* variant: a name that has an owner keeps it *)
registerKeepingOwner(svcs, serviceName, url, pid, t) ==
    [svcs EXCEPT ![serviceName] =
        IF svcs[serviceName] = NoService THEN ServiceRecord(url, pid, t)
        ELSE ServiceRecord(url, svcs[serviceName].pid, t)]

register(svcs, serviceName, url, pid, t) ==
    [svcs EXCEPT ![serviceName] = ServiceRecord(url, pid, t)]

(* variant: every record of the owner of the named record goes *)
unregisterOwner(svcs, serviceName) ==
    IF svcs[serviceName] # NoService
    THEN [n \in DOMAIN svcs |->
             IF svcs[n] # NoService /\ svcs[n].pid = svcs[serviceName].pid
             THEN NoService ELSE svcs[n]]
    ELSE svcs

unregister(svcs, serviceName) ==
    IF svcs[serviceName] # NoService
    THEN [svcs EXCEPT ![serviceName] = NoService]
    ELSE svcs

(* variant: a name without a record gets one *)
updateHealthUpserting(svcs, serviceName, healthy, t) ==
    [svcs EXCEPT ![serviceName] =
        IF svcs[serviceName] # NoService
        THEN [svcs[serviceName] EXCEPT !.healthy = healthy,
                                       !.lastHealthCheck = t]
        ELSE [url |-> Undefined, registeredAt |-> t, lastHealthCheck |-> t,
              healthy |-> healthy, pid |-> 0]]

updateHealth(svcs, serviceName, healthy, t) ==
    IF svcs[serviceName] # NoService
    THEN [svcs EXCEPT ![serviceName].healthy = healthy,
                      ![serviceName].lastHealthCheck = t]
    ELSE svcs

(* discover: the record, or the error it throws *)
(* variant: the health flag is not looked at *)
discoverIgnoringHealth(svcs, serviceName) ==
    IF svcs[serviceName] = NoService
    THEN [ok |-> FALSE, error |-> NotFoundError]
    ELSE [ok |-> TRUE, service |-> svcs[serviceName]]

(* variant: a missing record is reported as an unhealthy one *)
discoverConfused(svcs, serviceName) ==
    IF svcs[serviceName] = NoService \/ ~svcs[serviceName].healthy
    THEN [ok |-> FALSE, error |-> UnavailableError]
    ELSE [ok |-> TRUE, service |-> svcs[serviceName]]

(* variant: the url is the one the gateway knew when it started *)
discoverStartupUrl(svcs, serviceName) ==
    IF svcs[serviceName] = NoService
    THEN [ok |-> FALSE, error |-> NotFoundError]
    ELSE IF ~svcs[serviceName].healthy
    THEN [ok |-> FALSE, error |-> UnavailableError]
    ELSE [ok |-> TRUE,
          service |-> [svcs[serviceName] EXCEPT
                          !.url = CHOOSE u \in Urls : TRUE]]

discover(svcs, serviceName) ==
    IF svcs[serviceName] = NoService
    THEN [ok |-> FALSE, error |-> NotFoundError]
    ELSE IF ~svcs[serviceName].healthy
    THEN [ok |-> FALSE, error |-> UnavailableError]
    ELSE [ok |-> TRUE, service |-> svcs[serviceName]]

(* unregister returns whether it found a record *)
unregisterReturn(svcs, serviceName) == svcs[serviceName] # NoService

(* cleanup of the process with this pid *)
(* variant: the registry is emptied, as clear does *)
cleanupClearing(svcs, pid) == [n \in DOMAIN svcs |-> NoService]

cleanup(svcs, pid) ==
    [n \in DOMAIN svcs |->
        IF svcs[n] # NoService /\ svcs[n].pid = pid THEN NoService ELSE svcs[n]]

(* new Date(ms).toISOString(): the instant as text *)
toISOString(ms) == [iso |-> ms]

(* variant: only the healthy services are listed *)
listServicesHealthy(svcs, t) ==
    [n \in {m \in DOMAIN svcs : svcs[m] # NoService /\ svcs[m].healthy} |->
        [url |-> svcs[n].url,
         healthy |-> svcs[n].healthy,
         registeredAt |-> toISOString(svcs[n].registeredAt),
         uptime |-> t - svcs[n].registeredAt,
         pid |-> svcs[n].pid]]

listServices(svcs, t) ==
    [n \in {m \in DOMAIN svcs : svcs[m] # NoService} |->
        [url |-> svcs[n].url,
         healthy |-> svcs[n].healthy,
         registeredAt |-> toISOString(svcs[n].registeredAt),
         uptime |-> t - svcs[n].registeredAt,
         pid |-> svcs[n].pid]]

----------------------------------------------------------------------------
(* Circuit breaker *)

NewBreaker == [state |-> "closed", failureCount |-> 0, lastFailTime |-> 0]

(* variant: the map is filled for every name on the first lookup *)
getCircuitBreakerEager(cbs, serviceName) ==
    [n \in DOMAIN cbs |-> IF cbs[n] = NoBreaker THEN NewBreaker ELSE cbs[n]]

getCircuitBreaker(cbs, serviceName) ==
    IF cbs[serviceName] = NoBreaker
    THEN [cbs EXCEPT ![serviceName] = NewBreaker]
    ELSE cbs

(* executeWithCircuitBreaker up to "await operation()": the breaker after  *)
(* the check of the open state, and whether the call is short-circuited.   *)
(* variant: the cooldown is taken twice as long *)
CooldownElapsedDoubled(cb, t) == t - cb.lastFailTime > 2 * Cooldown

CooldownElapsed(cb, t) == t - cb.lastFailTime > Cooldown

(* variant: a short-circuited call is stamped like a failure *)
breakerAdmitStamping(cb, t) ==
    IF cb.state = "open"
    THEN IF CooldownElapsed(cb, t)
         THEN [cb |-> [cb EXCEPT !.state = "half-open"], admitted |-> TRUE,
               trial |-> TRUE]
         ELSE [cb |-> [cb EXCEPT !.lastFailTime = t], admitted |-> FALSE,
               trial |-> FALSE]
    ELSE [cb |-> cb, admitted |-> TRUE, trial |-> FALSE]

breakerAdmit(cb, t) ==
    IF cb.state = "open"
    THEN IF CooldownElapsed(cb, t)
         THEN [cb |-> [cb EXCEPT !.state = "half-open"], admitted |-> TRUE,
               trial |-> TRUE]
         ELSE [cb |-> cb, admitted |-> FALSE, trial |-> FALSE]
    ELSE [cb |-> cb, admitted |-> TRUE, trial |-> FALSE]

(* variant: a success closes the breaker and keeps the count *)
breakerOnSuccessKeeping(cb) ==
    IF cb.state = "half-open"
    THEN [cb EXCEPT !.state = "closed"]
    ELSE cb

(* the try branch after the await *)
breakerOnSuccess(cb) ==
    IF cb.state = "half-open"
    THEN [cb EXCEPT !.state = "closed", !.failureCount = 0]
    ELSE cb

(* variants: the breaker opens one failure late; the failure is counted    *)
(* but not stamped                                                         *)
breakerOnFailureLate(cb, t) ==
    LET counted == [cb EXCEPT !.failureCount = cb.failureCount + 1,
                              !.lastFailTime = t]
    IN  IF counted.failureCount > FailureThreshold
        THEN [counted EXCEPT !.state = "open"]
        ELSE counted

breakerOnFailureUnstamped(cb, t) ==
    LET counted == [cb EXCEPT !.failureCount = cb.failureCount + 1]
    IN  IF counted.failureCount >= FailureThreshold
        THEN [counted EXCEPT !.state = "open"]
        ELSE counted

(* the catch branch after the await *)
breakerOnFailure(cb, t) ==
    LET counted == [cb EXCEPT !.failureCount = cb.failureCount + 1,
                              !.lastFailTime = t]
    IN  IF counted.failureCount >= FailureThreshold
        THEN [counted EXCEPT !.state = "open"]
        ELSE counted

(* how a promise settles: with a result or with an error *)
execReturn(result) == [kind |-> "result", status |-> result]
execThrow(error) == [kind |-> "error", error |-> error]

(* variant: a failure is reported as a new error instead of rethrown *)
execSettleWrapping(admitted, outcome) ==
    IF ~admitted
    THEN execThrow(CircuitOpenError)
    ELSE IF outcome.kind = "error"
    THEN execThrow([kind |-> "wrapped"])
    ELSE outcome

(* what executeWithCircuitBreaker hands to its caller, given whether the   *)
(* call passed the breaker and how operation() settled                     *)
execSettle(admitted, outcome) ==
    IF ~admitted
    THEN execThrow(CircuitOpenError)
    ELSE outcome

----------------------------------------------------------------------------
(* proxyToService: the response for each way the handler can end *)

proxySuccessResponse(serviceName, status) ==
    [serviceName |-> serviceName, status |-> status, body |-> "downstream",
     service |-> "none"]

(* variant: an error status of the downstream is answered as an error of  *)
(* the gateway                                                             *)
proxyErrorResponseMasking(serviceName, error) ==
    IF error.kind = "circuit-open"
    THEN [serviceName |-> serviceName, status |-> 503,
          body |-> "circuit-open", service |-> serviceName]
    ELSE IF error.kind = "refused" \/ error.kind = "not-found"
    THEN [serviceName |-> serviceName, status |-> 503,
          body |-> "unavailable", service |-> serviceName]
    ELSE [serviceName |-> serviceName, status |-> 500,
          body |-> "gateway-error", service |-> serviceName]

proxyErrorResponse(serviceName, error) ==
    IF error.kind = "circuit-open"
    THEN [serviceName |-> serviceName, status |-> 503,
          body |-> "circuit-open", service |-> serviceName]
    ELSE IF error.kind = "refused" \/ error.kind = "not-found"
    THEN [serviceName |-> serviceName, status |-> 503,
          body |-> "unavailable", service |-> serviceName]
    ELSE IF error.kind = "http"
    THEN [serviceName |-> serviceName, status |-> error.status,
          body |-> error.data, service |-> "none"]
    ELSE [serviceName |-> serviceName, status |-> 500,
          body |-> "gateway-error", service |-> serviceName]

proxyResponse(serviceName, returned) ==
    IF returned.kind = "result"
    THEN proxySuccessResponse(serviceName, returned.status)
    ELSE proxyErrorResponse(serviceName, returned.error)

----------------------------------------------------------------------------
Init ==
    /\ now = StartTime
    /\ services = [n \in ServiceNames |-> NoService]
    /\ circuitBreakers = [n \in ServiceNames |-> NoBreaker]
    /\ inflight = [s \in Slots |-> NoCall]
    /\ hist = [n \in ServiceNames |-> << >>]
    /\ invocations = [n \in ServiceNames |-> 0]
    /\ requests = 0
    /\ lastRequest = NoRequest
    /\ lastCall = NoApiCall
    /\ lastWrite = [n \in ServiceNames |-> NoWrite]
    /\ pending = [p \in Processes |-> NoOperation]
    /\ sweep = NoSweep
    /\ procs = [p \in Processes |-> Running]
    /\ downstream = [n \in AllServices |-> "up"]
    /\ handler = NoHandler
    /\ routed = NoRoute
    /\ ListsIdle

(* variant: the timeout of a forward is longer than the cooldown *)
ExpiredLate(call) == now - call.start >= 5 * Timeout

(* A pending forward is rejected by axios once its timeout has run out, so *)
(* the clock does not pass a pending call's deadline.                      *)
Expired(call) == now - call.start >= Timeout

(* Date.now() is read in two places only: the cooldown test of an open     *)
(* breaker and the stamp of a failure.  Time that passes while no breaker  *)
(* is open and no call is pending shifts every later timestamp by the same *)
(* amount and changes no comparison, so the clock is advanced only while   *)
(* a breaker is open or a call is pending.                                 *)
TimeMatters ==
    \/ \E s \in Slots : inflight[s] # NoCall
    \/ \E n \in ServiceNames :
          circuitBreakers[n] # NoBreaker /\ circuitBreakers[n].state = "open"

Tick ==
    /\ now < MaxTime
    /\ TimeMatters
    /\ \A s \in Slots : inflight[s] # NoCall => ~Expired(inflight[s])
    /\ now' = now + TickStep
    /\ UNCHANGED <<services, circuitBreakers, inflight, hist, invocations,
                   requests, lastRequest>>
    /\ UNCHANGED registryVars
    /\ UNCHANGED gatewayVars /\ UNCHANGED listVars

Register(serviceName, url, pid) ==
    /\ services' = register(services, serviceName, url, pid, now)
    /\ UNCHANGED <<now, circuitBreakers, inflight, hist, invocations,
                   requests, lastRequest>>
    /\ UNCHANGED registryVars
    /\ UNCHANGED gatewayVars /\ UNCHANGED listVars

Unregister(serviceName) ==
    /\ services[serviceName] # NoService
    /\ services' = unregister(services, serviceName)
    /\ UNCHANGED <<now, circuitBreakers, inflight, hist, invocations,
                   requests, lastRequest>>
    /\ UNCHANGED registryVars
    /\ UNCHANGED gatewayVars /\ UNCHANGED listVars

UpdateHealth(serviceName, healthy) ==
    /\ services[serviceName] # NoService
    /\ services[serviceName].healthy # healthy
    /\ services' = updateHealth(services, serviceName, healthy, now)
    /\ UNCHANGED <<now, circuitBreakers, inflight, hist, invocations,
                   requests, lastRequest>>
    /\ UNCHANGED registryVars
    /\ UNCHANGED gatewayVars /\ UNCHANGED listVars

(* proxyToService, discover throws: the catch block answers *)
ProxyDiscoverFails(serviceName) ==
    LET found == discover(services, serviceName) IN
    /\ ~found.ok
    /\ lastRequest' = [serviceName |-> serviceName, operation |-> NotReached,
                       returned |-> NotReached,
                       response |-> proxyErrorResponse(serviceName, found.error)]
    /\ UNCHANGED <<now, services, circuitBreakers, inflight, hist,
                   invocations, requests>>
    /\ UNCHANGED registryVars
    /\ UNCHANGED gatewayVars /\ UNCHANGED listVars

(* proxyToService, the breaker is open and the cooldown has not elapsed *)
ProxyShortCircuit(serviceName) ==
    LET found == discover(services, serviceName)
        cbs == getCircuitBreaker(circuitBreakers, serviceName)
        adm == breakerAdmit(cbs[serviceName], now)
    IN
    /\ found.ok
    /\ requests < MaxRequests
    /\ ~adm.admitted
    /\ requests' = requests + 1
    /\ circuitBreakers' = [cbs EXCEPT ![serviceName] = adm.cb]
    /\ hist' = [hist EXCEPT ![serviceName] = Append(@, "X")]
    /\ LET returned == execSettle(adm.admitted, NotInvoked) IN
       lastRequest' = [serviceName |-> serviceName, operation |-> NotInvoked,
                       returned |-> returned,
                       response |-> proxyResponse(serviceName, returned)]
    /\ UNCHANGED <<now, services, inflight, invocations>>
    /\ UNCHANGED registryVars
    /\ UNCHANGED gatewayVars /\ UNCHANGED listVars

(* proxyToService, the call passes the breaker: operation() is invoked and *)
(* the handler suspends                                                    *)
ProxyInvoke(serviceName, slot) ==
    LET found == discover(services, serviceName)
        cbs == getCircuitBreaker(circuitBreakers, serviceName)
        adm == breakerAdmit(cbs[serviceName], now)
    IN
    /\ found.ok
    /\ requests < MaxRequests
    /\ inflight[slot] = NoCall
    /\ \A s \in Slots : s < slot => inflight[s] # NoCall
    /\ adm.admitted
    /\ requests' = requests + 1
    /\ circuitBreakers' = [cbs EXCEPT ![serviceName] = adm.cb]
    /\ invocations' = [invocations EXCEPT ![serviceName] = @ + 1]
    /\ inflight' = [inflight EXCEPT ![slot] =
                       [serviceName |-> serviceName, url |-> found.service.url,
                        start |-> now, trial |-> adm.trial]]
    /\ UNCHANGED <<now, services, hist, lastRequest>>
    /\ UNCHANGED registryVars
    /\ UNCHANGED gatewayVars /\ UNCHANGED listVars

(* the downstream answers with a 2xx status before the timeout *)
OperationResolves(slot, status) ==
    /\ inflight[slot] # NoCall
    /\ ~Expired(inflight[slot])
    /\ LET serviceName == inflight[slot].serviceName IN
       /\ circuitBreakers' = [circuitBreakers EXCEPT ![serviceName] =
                                 breakerOnSuccess(@)]
       /\ hist' = [hist EXCEPT ![serviceName] = Append(@, "S")]
       /\ LET returned == execSettle(TRUE, execReturn(status)) IN
          lastRequest' = [serviceName |-> serviceName,
                          operation |-> execReturn(status),
                          returned |-> returned,
                          response |-> proxyResponse(serviceName, returned)]
    /\ inflight' = [inflight EXCEPT ![slot] = NoCall]
    /\ UNCHANGED <<now, services, invocations, requests>>
    /\ UNCHANGED registryVars
    /\ UNCHANGED gatewayVars /\ UNCHANGED listVars

(* axios rejects: connection refused or an error status before the        *)
(* timeout, the timeout once it has run out                                *)
OperationRejects(slot, error) ==
    /\ inflight[slot] # NoCall
    /\ (error.kind = "timeout") <=> Expired(inflight[slot])
    /\ LET serviceName == inflight[slot].serviceName IN
       /\ circuitBreakers' = [circuitBreakers EXCEPT ![serviceName] =
                                 breakerOnFailure(@, now)]
       /\ hist' = [hist EXCEPT ![serviceName] = Append(@, "F")]
       /\ LET returned == execSettle(TRUE, execThrow(error)) IN
          lastRequest' = [serviceName |-> serviceName,
                          operation |-> execThrow(error),
                          returned |-> returned,
                          response |-> proxyResponse(serviceName, returned)]
    /\ inflight' = [inflight EXCEPT ![slot] = NoCall]
    /\ UNCHANGED <<now, services, invocations, requests>>
    /\ UNCHANGED registryVars
    /\ UNCHANGED gatewayVars /\ UNCHANGED listVars

OperationErrors ==
    {RefusedError, UnreachableError, TimeoutError}
        \cup {HttpError(s) : s \in ErrorStatuses}

(* Next-state relations.  Registry is the registry API as the services     *)
(* call it, Forward is the gateway's forwarding handler.                   *)
Registry ==
    \/ \E n \in ServiceNames, u \in Urls, p \in Pids : Register(n, u, p)
    \/ \E n \in ServiceNames : Unregister(n)
    \/ \E n \in ServiceNames, h \in BOOLEAN : UpdateHealth(n, h)

Forward ==
    \/ \E n \in ServiceNames : ProxyShortCircuit(n)
    \/ \E n \in ServiceNames, s \in Slots : ProxyInvoke(n, s)
    \/ \E s \in Slots, st \in OkStatuses : OperationResolves(s, st)
    \/ \E s \in Slots, e \in OperationErrors : OperationRejects(s, e)

(* The gateway and the registry at one instant: services come and go while *)
(* requests are forwarded.                                                 *)
Next ==
    \/ Registry
    \/ \E n \in ServiceNames : ProxyDiscoverFails(n)
    \/ Forward

Spec == Init /\ [][Next]_vars

(* The breaker over time: every service is registered and healthy, and the *)
(* clock runs.                                                             *)
InitRegistered ==
    /\ now = StartTime
    /\ \E u \in Urls, p \in Pids :
          services = [n \in ServiceNames |-> ServiceRecord(u, p, StartTime)]
    /\ circuitBreakers = [n \in ServiceNames |-> NoBreaker]
    /\ inflight = [s \in Slots |-> NoCall]
    /\ hist = [n \in ServiceNames |-> << >>]
    /\ invocations = [n \in ServiceNames |-> 0]
    /\ requests = 0
    /\ lastRequest = NoRequest
    /\ lastCall = NoApiCall
    /\ lastWrite = [n \in ServiceNames |-> NoWrite]
    /\ pending = [p \in Processes |-> NoOperation]
    /\ sweep = NoSweep
    /\ procs = [p \in Processes |-> Running]
    /\ downstream = [n \in AllServices |-> "up"]
    /\ handler = NoHandler
    /\ routed = NoRoute
    /\ ListsIdle

NextBreaker ==
    \/ Tick
    \/ Forward

SpecBreaker == InitRegistered /\ [][NextBreaker]_vars

----------------------------------------------------------------------------
(* The registry API, one call of one process per step: every method is     *)
(* synchronous, so within a process a call runs from readRegistry to       *)
(* writeRegistry without interruption.                                     *)

(* a completed write to a name: the call, its argument and the record it   *)
(* left                                                                    *)
WriteOf(op, pid, arg, after, serviceName) ==
    [op |-> op, pid |-> pid, arg |-> arg, record |-> after[serviceName]]

(* where a record points, who owns it and how it stands *)
Registration(record) ==
    IF record = NoService THEN NoService
    ELSE [url |-> record.url, pid |-> record.pid, healthy |-> record.healthy]

(* a register call also notes the registration it found under the name *)
ApiRegister(pid, serviceName, url) ==
    LET read == readRegistry(services)
        written == register(read, serviceName, url, pid, now) IN
    /\ services' \in writeOutcomes(services, written)
    /\ lastCall' = [op |-> "register", pid |-> pid, serviceName |-> serviceName,
                    url |-> url, found |-> Registration(read[serviceName]),
                    readable |-> Readable(services),
                    result |-> Returned(Undefined)]
    /\ lastWrite' = IF services' = written
                    THEN [lastWrite EXCEPT ![serviceName] =
                             WriteOf("register", pid, url, written,
                                     serviceName)]
                    ELSE lastWrite
    /\ UNCHANGED <<now, circuitBreakers, inflight, hist, invocations,
                   requests, lastRequest, pending, sweep>>
    /\ UNCHANGED gatewayVars /\ UNCHANGED listVars

ApiDiscover(pid, serviceName) ==
    /\ lastCall' = [op |-> "discover", pid |-> pid, serviceName |-> serviceName,
                    readable |-> Readable(services),
                    result |-> discover(readRegistry(services), serviceName)]
    /\ UNCHANGED <<now, services, circuitBreakers, inflight, hist,
                   invocations, requests, lastRequest, lastWrite, pending,
                   sweep>>
    /\ UNCHANGED gatewayVars /\ UNCHANGED listVars

ApiListServices(pid) ==
    /\ lastCall' = [op |-> "listServices", pid |-> pid,
                    readable |-> Readable(services),
                    result |-> Returned(listServices(readRegistry(services),
                                                     now))]
    /\ UNCHANGED <<now, services, circuitBreakers, inflight, hist,
                   invocations, requests, lastRequest, lastWrite, pending,
                   sweep>>
    /\ UNCHANGED gatewayVars /\ UNCHANGED listVars

ApiUnregister(pid, serviceName) ==
    LET read == readRegistry(services)
        written == unregister(read, serviceName) IN
    /\ services' = IF read[serviceName] # NoService
                   THEN writeRegistry(services, written) ELSE services
    /\ lastCall' = [op |-> "unregister", pid |-> pid,
                    serviceName |-> serviceName,
                    readable |-> Readable(services),
                    result |-> Returned(unregisterReturn(read, serviceName))]
    /\ lastWrite' = IF read[serviceName] # NoService
                    THEN [lastWrite EXCEPT ![serviceName] =
                             WriteOf("unregister", pid, Undefined, written,
                                     serviceName)]
                    ELSE lastWrite
    /\ UNCHANGED <<now, circuitBreakers, inflight, hist, invocations,
                   requests, lastRequest, pending, sweep>>
    /\ UNCHANGED gatewayVars /\ UNCHANGED listVars

ApiUpdateHealth(pid, serviceName, healthy) ==
    LET read == readRegistry(services)
        written == updateHealth(read, serviceName, healthy, now) IN
    /\ services' = IF read[serviceName] # NoService
                   THEN writeRegistry(services, written) ELSE services
    /\ lastCall' = [op |-> "updateHealth", pid |-> pid,
                    serviceName |-> serviceName, healthy |-> healthy,
                    readable |-> Readable(services),
                    result |-> Returned(Undefined)]
    /\ lastWrite' = IF read[serviceName] # NoService
                    THEN [lastWrite EXCEPT ![serviceName] =
                             WriteOf("updateHealth", pid, healthy, written,
                                     serviceName)]
                    ELSE lastWrite
    /\ UNCHANGED <<now, circuitBreakers, inflight, hist, invocations,
                   requests, lastRequest, pending, sweep>>
    /\ UNCHANGED gatewayVars /\ UNCHANGED listVars

ApiCleanup(pid) ==
    LET read == readRegistry(services)
        written == cleanup(read, pid) IN
    /\ services' = IF written # read
                   THEN writeRegistry(services, written) ELSE services
    /\ lastCall' = [op |-> "cleanup", pid |-> pid,
                    readable |-> Readable(services),
                    result |-> Returned(Undefined)]
    /\ lastWrite' = [n \in ServiceNames |->
                        IF written[n] # read[n]
                        THEN WriteOf("cleanup", pid, Undefined, written, n)
                        ELSE lastWrite[n]]
    /\ UNCHANGED <<now, circuitBreakers, inflight, hist, invocations,
                   requests, lastRequest, pending, sweep>>
    /\ UNCHANGED gatewayVars /\ UNCHANGED listVars

(* time passes between two calls *)
ClockTick ==
    /\ now < StartTime + MaxRegistryTicks * TickStep
    /\ now' = now + TickStep
    /\ UNCHANGED <<services, circuitBreakers, inflight, hist, invocations,
                   requests, lastRequest>>
    /\ UNCHANGED registryVars
    /\ UNCHANGED gatewayVars /\ UNCHANGED listVars

NextRegistry ==
    \/ ClockTick
    \/ \E p \in Processes, n \in ServiceNames, u \in ServiceUrls :
          ApiRegister(p, n, u)
    \/ \E p \in Processes, n \in ServiceNames : ApiDiscover(p, n)
    \/ \E p \in Processes : ApiListServices(p)
    \/ \E p \in Processes, n \in ServiceNames : ApiUnregister(p, n)
    \/ \E p \in Processes, n \in ServiceNames, h \in BOOLEAN :
          ApiUpdateHealth(p, n, h)
    \/ \E p \in Processes : ApiCleanup(p)

SpecRegistry == Init /\ [][NextRegistry]_vars

-----------------------------------------------------------------------------
(* The registry over a file that gets lost or damaged: something outside   *)
(* the program removes the file or leaves it with a content that is not    *)
(* JSON, and a process that starts creates the file when it is not there.  *)

FileLost(file) ==
    /\ Readable(services)
    /\ services' = file
    /\ UNCHANGED <<now, circuitBreakers, inflight, hist, invocations,
                   requests, lastRequest>>
    /\ UNCHANGED registryVars
    /\ UNCHANGED gatewayVars /\ UNCHANGED listVars

(* the constructor of the registry object of a starting process *)
EnsureRegistryFile(pid) ==
    /\ services' = IF services = MissingFile
                   THEN writeRegistry(services, EmptyRegistry)
                   ELSE services
    /\ lastCall' = [op |-> "ensureRegistryFile", pid |-> pid,
                    readable |-> Readable(services),
                    result |-> Returned(Undefined)]
    /\ UNCHANGED <<now, circuitBreakers, inflight, hist, invocations,
                   requests, lastRequest, lastWrite, pending, sweep>>
    /\ UNCHANGED gatewayVars /\ UNCHANGED listVars

NextStore ==
    \/ \E f \in {MissingFile, UnreadableFile} : FileLost(f)
    \/ \E p \in Processes : EnsureRegistryFile(p)
    \/ \E p \in Processes, n \in ServiceNames, u \in ServiceUrls :
          ApiRegister(p, n, u)
    \/ \E p \in Processes, n \in ServiceNames : ApiDiscover(p, n)
    \/ \E p \in Processes : ApiListServices(p)
    \/ \E p \in Processes, n \in ServiceNames : ApiUnregister(p, n)
    \/ \E p \in Processes, n \in ServiceNames, h \in BOOLEAN :
          ApiUpdateHealth(p, n, h)
    \/ \E p \in Processes : ApiCleanup(p)

SpecStore == Init /\ [][NextStore]_vars

-----------------------------------------------------------------------------
(* Registry calls of separate processes                                    *)
(*                                                                         *)
(* Every service is a process of its own with its own registry object over *)
(* the one file.  A call that writes reads the file into a copy, changes   *)
(* the copy and writes the copy back; nothing holds the file in between,   *)
(* so a read or a write of the other process may fall between the two.     *)
(* Each process writes under the name of its own service.                  *)

OwnName(pid) ==
    IF pid = CHOOSE p \in Processes : \A q \in Processes : p <= q
    THEN "user-service" ELSE "item-service"
OwnUrl(pid) ==
    IF OwnName(pid) = "user-service"
    THEN "http://localhost:3001" ELSE "http://localhost:3003"

WriteOps == {"register", "unregister", "updateHealth", "cleanup"}

(* the copy of a pending call after the call has changed it *)
changedCopy(operation, pid, t) ==
    CASE operation.op = "register" ->
            register(operation.services, operation.serviceName, OwnUrl(pid),
                     pid, t)
      [] operation.op = "unregister" ->
            unregister(operation.services, operation.serviceName)
      [] operation.op = "updateHealth" ->
            updateHealth(operation.services, operation.serviceName,
                         operation.healthy, t)
      [] operation.op = "cleanup" ->
            cleanup(operation.services, pid)

(* whether the call reaches writeRegistry *)
callsWriteRegistry(operation, pid) ==
    CASE operation.op = "register" -> TRUE
      [] operation.op \in {"unregister", "updateHealth"} ->
            operation.services[operation.serviceName] # NoService
      [] operation.op = "cleanup" ->
            \E n \in ServiceNames :
                /\ operation.services[n] # NoService
                /\ operation.services[n].pid = pid

(* the call has run up to its readRegistry *)
ReadsRegistry(pid, op, healthy) ==
    /\ pending[pid] = NoOperation
    /\ pending' = [pending EXCEPT ![pid] =
                      [op |-> op, serviceName |-> OwnName(pid),
                       healthy |-> healthy,
                       services |-> readRegistry(services)]]
    /\ UNCHANGED <<now, services, circuitBreakers, inflight, hist,
                   invocations, requests, lastRequest, lastCall, lastWrite,
                   sweep>>
    /\ UNCHANGED gatewayVars /\ UNCHANGED listVars

(* the rest of the call: the change of the copy and the writeRegistry *)
WritesRegistry(pid) ==
    /\ pending[pid] # NoOperation
    /\ LET operation == pending[pid]
           copy == changedCopy(operation, pid, now)
           arg == CASE operation.op = "register" -> OwnUrl(pid)
                    [] operation.op = "updateHealth" -> operation.healthy
                    [] OTHER -> Undefined
       IN IF callsWriteRegistry(operation, pid)
          THEN /\ services' = writeRegistry(services, copy)
               /\ lastWrite' = [n \in ServiceNames |->
                                   IF copy[n] # operation.services[n]
                                      \/ (n = operation.serviceName
                                            /\ operation.op # "cleanup")
                                   THEN WriteOf(operation.op, pid, arg,
                                                copy, n)
                                   ELSE lastWrite[n]]
          ELSE UNCHANGED <<services, lastWrite>>
    /\ pending' = [pending EXCEPT ![pid] = NoOperation]
    /\ UNCHANGED <<now, circuitBreakers, inflight, hist, invocations,
                   requests, lastRequest, lastCall, sweep>>
    /\ UNCHANGED gatewayVars /\ UNCHANGED listVars

NextRace ==
    \/ \E p \in Processes, op \in WriteOps \ {"updateHealth"} :
          ReadsRegistry(p, op, TRUE)
    \/ \E p \in Processes, h \in BOOLEAN :
          ReadsRegistry(p, "updateHealth", h)
    \/ \E p \in Processes : WritesRegistry(p)

SpecRace == Init /\ [][NextRace]_vars

-----------------------------------------------------------------------------
(* Health sweep of the gateway                                             *)
(*                                                                         *)
(* performHealthChecks reads the registry once and probes the records it   *)
(* read one after the other; each probe is awaited, and what follows the   *)
(* await, updateHealth and the step to the next record, runs in one piece. *)
(* While a probe is awaited the services register, report their health and *)
(* unregister under their own names.  The order of the probes is the order *)
(* of the keys of the file, which the model does not keep: any order.      *)

Gateway == 100

(* how a probe ends: a 2xx answer, a rejection, or no answer in 5 s *)
Outcomes == {"ok", "failed", "timeout"}

(* try: updateHealth(serviceName, true); catch: updateHealth(.., false) *)
probeHealthy(outcome) == outcome = "ok"

sweepStarted(svcs) ==
    LET names == {n \in ServiceNames : svcs[n] # NoService} IN
    [snapshot |-> names, probes |-> << >>, finished |-> names = {}]

Probed(sw) == {sw.probes[i].serviceName : i \in 1..Len(sw.probes)}

(* variant: a probe that fails ends the sweep *)
sweepProbedAborting(sw, serviceName, outcome, found) ==
    LET probes == Append(sw.probes, [serviceName |-> serviceName,
                                      outcome |-> outcome, found |-> found])
    IN [sw EXCEPT !.probes = probes,
                  !.finished = \/ ~probeHealthy(outcome)
                               \/ Len(probes) = Cardinality(sw.snapshot)]

sweepProbed(sw, serviceName, outcome, found) ==
    LET probes == Append(sw.probes, [serviceName |-> serviceName,
                                      outcome |-> outcome, found |-> found])
    IN [sw EXCEPT !.probes = probes,
                  !.finished = Len(probes) = Cardinality(sw.snapshot)]

SweepStart ==
    /\ IF sweep = NoSweep THEN TRUE ELSE sweep.finished
    /\ sweep' = sweepStarted(readRegistry(services))
    /\ UNCHANGED <<now, services, circuitBreakers, inflight, hist,
                   invocations, requests, lastRequest, lastCall, lastWrite,
                   pending>>
    /\ UNCHANGED gatewayVars /\ UNCHANGED listVars

SweepProbe(serviceName, outcome) ==
    /\ sweep # NoSweep
    /\ ~sweep.finished
    /\ serviceName \in sweep.snapshot \ Probed(sweep)
    /\ LET written == updateHealth(services, serviceName,
                                   probeHealthy(outcome), now) IN
       /\ services' = written
       /\ lastWrite' = IF services[serviceName] # NoService
                       THEN [lastWrite EXCEPT ![serviceName] =
                                WriteOf("updateHealth", Gateway,
                                        probeHealthy(outcome), written,
                                        serviceName)]
                       ELSE lastWrite
    /\ sweep' = sweepProbed(sweep, serviceName, outcome,
                            services[serviceName] # NoService)
    /\ UNCHANGED <<now, circuitBreakers, inflight, hist, invocations,
                   requests, lastRequest, lastCall, pending>>
    /\ UNCHANGED gatewayVars /\ UNCHANGED listVars

NextSweep ==
    \/ SweepStart
    \/ \E n \in ServiceNames, o \in Outcomes : SweepProbe(n, o)
    \/ \E p \in Processes : ApiRegister(p, OwnName(p), OwnUrl(p))
    \/ \E p \in Processes : ApiUpdateHealth(p, OwnName(p), TRUE)
    \/ \E p \in Processes : ApiUnregister(p, OwnName(p))

SpecSweep == Init /\ [][NextSweep]_vars

----------------------------------------------------------------------------
(* Termination signals                                                     *)
(*                                                                         *)
(* A process has two listeners for SIGTERM and two for SIGINT.  The one of *)
(* the registry module is added when the module is loaded, by the require  *)
(* at the top of the main file; the one of the main file is added at its   *)
(* end.  Node calls the listeners of a signal in the order they were       *)
(* added, and process.exit runs the listeners of 'exit' and ends the       *)
(* process before it returns.                                              *)

Signals == {"SIGTERM", "SIGINT"}

(* registry.cleanup(); process.exit(0) *)
registryListener == <<"cleanup", "exit">>
(* serviceRegistry.unregister(own name); process.exit(0) *)
mainListener == <<"unregister", "exit">>
(* process.on('exit', () => registry.cleanup()) *)
exitListener == <<"cleanup">>

signalListeners == <<registryListener, mainListener>>

RECURSIVE Flatten(_)
Flatten(seqs) ==
    IF seqs = << >> THEN << >> ELSE Head(seqs) \o Flatten(Tail(seqs))

(* the statements that run: up to the first process.exit, then the         *)
(* listeners of 'exit'                                                     *)
RECURSIVE UpToExit(_)
UpToExit(statements) ==
    IF statements = << >> THEN << >>
    ELSE IF Head(statements) = "exit" THEN exitListener
    ELSE <<Head(statements)>> \o UpToExit(Tail(statements))

callsOnSignal == UpToExit(Flatten(signalListeners))

(* the registry after the calls, made by the process pid *)
RECURSIVE afterCalls(_, _, _)
afterCalls(svcs, calls, pid) ==
    IF calls = << >> THEN svcs
    ELSE afterCalls(IF Head(calls) = "cleanup" THEN cleanup(svcs, pid)
                    ELSE unregister(svcs, OwnName(pid)),
                    Tail(calls), pid)

Exited(signal, calls) ==
    [state |-> "exited", signal |-> signal, calls |-> calls]

(* the process receives the signal: its listeners run and it is gone *)
Signal(pid, signal) ==
    /\ procs[pid] = Running
    /\ services' = afterCalls(services, callsOnSignal, pid)
    /\ procs' = [procs EXCEPT ![pid] = Exited(signal, callsOnSignal)]
    /\ UNCHANGED <<now, circuitBreakers, inflight, hist, invocations,
                   requests, lastRequest, downstream, handler, routed>>
    /\ UNCHANGED registryVars
    /\ UNCHANGED listVars

(* processes register, also under a name another process holds, until     *)
(* they are signalled; the sweep of the gateway marks the records          *)
NextShutdown ==
    \/ \E p \in Processes, n \in ServiceNames, u \in ServiceUrls :
          procs[p] = Running /\ Register(n, u, p)
    \/ \E n \in ServiceNames, h \in BOOLEAN : UpdateHealth(n, h)
    \/ \E p \in Processes, sig \in Signals : Signal(p, sig)

SpecShutdown == Init /\ [][NextShutdown]_vars

----------------------------------------------------------------------------
(* Routing of the gateway: the routes of setupRoutes and the rewriting of  *)
(* req.originalUrl in proxyToService. A url is the sequence of its pieces: *)
(* the segments of the path and, last, the query string if there is one.   *)

MaxSegments == 4

Methods == {"GET", "POST"}
Segments ==
    {"/api", "/users", "/auth", "/items", "/categories", "/lists",
     "/search", "/42"}
Queries == {"?q=/api/users"}

Paths == UNION {[1..k -> Segments] : k \in 1..MaxSegments}
OriginalUrls == Paths \cup {p \o <<q>> : p \in Paths, q \in Queries}

(* req.path: the url without its query string *)
pathOf(originalUrl) ==
    IF originalUrl[Len(originalUrl)] \in Queries
    THEN SubSeq(originalUrl, 1, Len(originalUrl) - 1)
    ELSE originalUrl

(* String.prototype.startsWith *)
startsWith(string, prefix) ==
    /\ Len(prefix) <= Len(string)
    /\ SubSeq(string, 1, Len(prefix)) = prefix

(* the places where pattern occurs in string *)
occurrences(string, pattern) ==
    {i \in 1..(Len(string) - Len(pattern) + 1) :
        SubSeq(string, i, i + Len(pattern) - 1) = pattern}

replaceAt(string, i, pattern, replacement) ==
    SubSeq(string, 1, i - 1) \o replacement
        \o SubSeq(string, i + Len(pattern), Len(string))

firstOccurrence(string, pattern) ==
    CHOOSE i \in occurrences(string, pattern) :
        \A j \in occurrences(string, pattern) : i <= j

(* String.prototype.replace with a string pattern: the first occurrence *)
RECURSIVE replaceEvery(_, _, _)
(* variant: every occurrence of the pattern is replaced *)
replaceEvery(string, pattern, replacement) ==
    IF occurrences(string, pattern) = {}
    THEN string
    ELSE LET i == firstOccurrence(string, pattern)
         IN  SubSeq(string, 1, i - 1) \o replacement
                \o replaceEvery(SubSeq(string, i + Len(pattern), Len(string)),
                                pattern, replacement)

replace(string, pattern, replacement) ==
    IF occurrences(string, pattern) = {}
    THEN string
    ELSE replaceAt(string, firstOccurrence(string, pattern),
                   pattern, replacement)

(* the routes in the order of their registration: the item search of the   *)
(* gateway itself, then the forwarded prefixes, each as '/prefix/*' and    *)
(* '/prefix'                                                               *)
Route(methods, pattern, wildcard, callback, serviceName) ==
    [methods |-> methods, pattern |-> pattern, wildcard |-> wildcard,
     handler |-> callback, serviceName |-> serviceName]

proxyRoutes(pattern, serviceName) ==
    <<Route(Methods, pattern, TRUE, "proxyToService", serviceName),
      Route(Methods, pattern, FALSE, "proxyToService", serviceName)>>

routes ==
    <<Route({"GET"}, <<"/api", "/items", "/search">>, FALSE,
            "itemSearch", "item-service")>>
    \o proxyRoutes(<<"/api", "/users">>, "user-service")
    \o proxyRoutes(<<"/api", "/auth">>, "user-service")
    \o proxyRoutes(<<"/api", "/items">>, "item-service")
    \o proxyRoutes(<<"/api", "/categories">>, "item-service")
    \o proxyRoutes(<<"/api", "/lists">>, "list-service")

matches(route, method, path) ==
    /\ method \in route.methods
    /\ IF route.wildcard
       THEN startsWith(path, route.pattern) /\ Len(path) > Len(route.pattern)
       ELSE path = route.pattern

(* the first route that matches, or the 404 handler of setupErrorHandling *)
NotFoundHandler == Route(Methods, <<>>, TRUE, "notFound", "api-gateway")

dispatch(method, path) ==
    IF \E i \in 1..Len(routes) : matches(routes[i], method, path)
    THEN routes[CHOOSE i \in 1..Len(routes) :
                   /\ matches(routes[i], method, path)
                   /\ \A j \in 1..(i - 1) : ~matches(routes[j], method, path)]
    ELSE NotFoundHandler

(* targetPath of proxyToService *)
targetPath(originalUrl) ==
    IF startsWith(originalUrl, <<"/api", "/users">>)
    THEN replace(originalUrl, <<"/api", "/users">>, <<"/users">>)
    ELSE IF startsWith(originalUrl, <<"/api", "/auth">>)
    THEN replace(originalUrl, <<"/api", "/auth">>, <<"/auth">>)
    ELSE IF startsWith(originalUrl, <<"/api", "/items">>)
    THEN replace(originalUrl, <<"/api", "/items">>, <<"/items">>)
    ELSE IF startsWith(originalUrl, <<"/api", "/categories">>)
    THEN replace(originalUrl, <<"/api", "/categories">>, <<"/categories">>)
    ELSE IF startsWith(originalUrl, <<"/api", "/lists">>)
    THEN replace(originalUrl, <<"/api", "/lists">>, <<"/lists">>)
    ELSE originalUrl

(* A request that has arrived: express has not dispatched it yet. *)
Arrived(method, originalUrl) ==
    [method |-> method, originalUrl |-> originalUrl, handler |-> "none",
     serviceName |-> "none", targetPath |-> <<>>]

Arrivals == {Arrived(m, u) : m \in Methods, u \in OriginalUrls}

InitRoute ==
    /\ now = StartTime
    /\ services = [n \in ServiceNames |-> NoService]
    /\ circuitBreakers = [n \in ServiceNames |-> NoBreaker]
    /\ inflight = [s \in Slots |-> NoCall]
    /\ hist = [n \in ServiceNames |-> << >>]
    /\ invocations = [n \in ServiceNames |-> 0]
    /\ requests = 0
    /\ lastRequest = NoRequest
    /\ lastCall = NoApiCall
    /\ lastWrite = [n \in ServiceNames |-> NoWrite]
    /\ pending = [p \in Processes |-> NoOperation]
    /\ sweep = NoSweep
    /\ procs = [p \in Processes |-> Running]
    /\ downstream = [n \in AllServices |-> "up"]
    /\ handler = NoHandler
    /\ routed \in Arrivals
    /\ ListsIdle

(* The request is dispatched to the first route that matches; a forwarded  *)
(* one has its target path computed.                                       *)
Dispatch ==
    /\ routed.handler = "none"
    /\ LET route == dispatch(routed.method, pathOf(routed.originalUrl))
       IN  routed' =
             [routed EXCEPT
                !.handler = route.handler,
                !.serviceName = route.serviceName,
                !.targetPath = IF route.handler = "proxyToService"
                               THEN targetPath(routed.originalUrl)
                               ELSE <<>>]
    /\ UNCHANGED <<now, services, circuitBreakers, inflight, hist,
                   invocations, requests, lastRequest>>
    /\ UNCHANGED registryVars
    /\ UNCHANGED <<procs, downstream, handler>>
    /\ UNCHANGED listVars

NextRoute == Dispatch

SpecRoute == InitRoute /\ [][NextRoute]_vars

----------------------------------------------------------------------------
(* Resolution of the target: the registry changes between the forwarded    *)
(* requests, a service re-registering under another url included.          *)
NextResolve ==
    \/ \E n \in ServiceNames, u \in ServiceUrls, p \in Pids : Register(n, u, p)
    \/ \E n \in ServiceNames : Unregister(n)
    \/ \E n \in ServiceNames, h \in BOOLEAN : UpdateHealth(n, h)
    \/ \E n \in ServiceNames : ProxyDiscoverFails(n)
    \/ \E n \in ServiceNames, s \in Slots : ProxyInvoke(n, s)
    \/ \E s \in Slots, st \in OkStatuses : OperationResolves(s, st)

SpecResolve == Init /\ [][NextResolve]_vars

----------------------------------------------------------------------------
(* The gateway's own endpoints: GET /api/dashboard behind authMiddleware,  *)
(* GET /api/search and GET /api/items/search. A handler runs up to its     *)
(* next await in one step; the call it awaits is settled by the downstream *)
(* or by the timeout the call was given. The registry holds the three      *)
(* services; each downstream answers, refuses the connection, or accepts   *)
(* it and stays silent.                                                    *)

Modes == {"up", "refusing", "silent"}
Kinds == {"dashboard", "search", "itemSearch"}
Tokens == {"none", "valid", "invalid"}

(* timeout option of the axios calls; 0, the default of axios, is none *)
CallTimeout == 5000
NoTimeout == 0

OutboundCall(serviceName, path, timeout) ==
    [serviceName |-> serviceName, path |-> path, timeout |-> timeout]

(* the sections of the dashboard in the order they are filled *)
Sections == <<"user-service", "item-service", "list-service">>
SectionOf(serviceName) == CHOOSE i \in 1..Len(Sections) : Sections[i] = serviceName
NoSections == [n \in AllServices |-> "none"]

(* what a request can be measured against: the one service that is        *)
(* unregistered, unhealthy or not answering when the request arrives, and  *)
(* the services whose breaker is open then                                 *)
Down(svcs, ds, n) ==
    svcs[n] = NoService \/ ~svcs[n].healthy \/ ds[n] # "up"

oneDownAt(svcs, ds) ==
    IF Cardinality({n \in AllServices : Down(svcs, ds, n)}) = 1
    THEN CHOOSE n \in AllServices : Down(svcs, ds, n)
    ELSE "n/a"

(* the numeric summary of the dashboard: every field starts at 0 and is    *)
(* assigned from the answer of a call, whose count is Reported             *)
SummaryFields ==
    {"totalUsers", "totalItems", "activeItems", "categories",
     "totalLists", "activeLists", "userLists"}
NoSummary == [f \in SummaryFields |-> 0]
Reported == 2

(* the fields assigned from the answer of a section's /health call *)
healthFields(serviceName) ==
    IF serviceName = "user-service" THEN {"totalUsers"}
    ELSE IF serviceName = "item-service" THEN {"totalItems", "activeItems"}
    ELSE {"totalLists", "activeLists"}

assign(summary, fields, value) ==
    [f \in SummaryFields |-> IF f \in fields THEN value ELSE summary[f]]

Request(kind, token, svcs, ds) ==
    [kind |-> kind, token |-> token, pc |-> "arrived", call |-> NoCall,
     validation |-> "none", aggregated |-> FALSE, sections |-> NoSections,
     summary |-> NoSummary,
     userLists |-> "none", status |-> 0, oneDown |-> oneDownAt(svcs, ds),
     q |-> "absent", type |-> "all", items |-> "none", lists |-> "none",
     called |-> {},
     open |-> {n \in ServiceNames :
                 IF circuitBreakers[n] = NoBreaker THEN FALSE
                 ELSE circuitBreakers[n].state = "open"}]

respond(h, status) == [h EXCEPT !.pc = "done", !.call = NoCall, !.status = status]

await(h, pc, call) ==
    [h EXCEPT !.pc = pc, !.call = call,
              !.called = @ \cup {call.serviceName}]

(* aggregateDashboardData from the i-th section on, up to the next await:  *)
(* a section whose discover throws is marked unhealthy and the next one is *)
(* tried; after the last one the handler answers 200                       *)
RECURSIVE aggregateFrom(_, _, _)
(* variant: a section whose breaker was open when the request came in is   *)
(* failed without a call                                                   *)
aggregateFromGuarded(h, svcs, i) ==
    IF i > Len(Sections)
    THEN respond(h, 200)
    ELSE IF discover(svcs, Sections[i]).ok /\ Sections[i] \notin h.open
    THEN await(h, "aggregating",
               OutboundCall(Sections[i], "/health", CallTimeout))
    ELSE aggregateFrom([h EXCEPT !.sections[Sections[i]] = "unhealthy"],
                       svcs, i + 1)

aggregateFrom(h, svcs, i) ==
    IF i > Len(Sections)
    THEN respond(h, 200)
    ELSE IF discover(svcs, Sections[i]).ok
    THEN await(h, "aggregating",
               OutboundCall(Sections[i], "/health", CallTimeout))
    ELSE aggregateFrom([h EXCEPT !.sections[Sections[i]] = "unhealthy"],
                       svcs, i + 1)

(* aggregateDashboardData resumed when the call it awaits has settled *)
(* variant: a health call that fails ends the aggregation with 500 *)
aggregateSettledAborting(h, svcs, ok) ==
    LET n == h.call.serviceName
        i == SectionOf(n)
        failed == [h EXCEPT !.sections[n] = "unhealthy"]
        filled == [h EXCEPT !.sections[n] = "healthy",
                            !.summary = assign(@, healthFields(n), Reported)]
        counted == [h EXCEPT !.summary = assign(@, {"categories"}, Reported)]
    IN
    IF h.call.path = "/health"
    THEN IF ~ok
         THEN respond(failed, 500)
         ELSE IF n = "item-service"
         THEN await(filled, "aggregating",
                    OutboundCall(n, "/categories", CallTimeout))
         ELSE IF n = "list-service"
         THEN await(filled, "aggregating",
                    OutboundCall(n, "/lists", CallTimeout))
         ELSE aggregateFrom(filled, svcs, i + 1)
    ELSE IF h.call.path = "/categories"
    THEN aggregateFrom(IF ok THEN counted ELSE failed, svcs, i + 1)
    ELSE aggregateFrom([h EXCEPT
                           !.userLists = IF ok THEN "filled" ELSE "zero",
                           !.summary = assign(@, {"userLists"},
                                              IF ok THEN Reported ELSE 0)],
                       svcs, i + 1)

aggregateSettled(h, svcs, ok) ==
    LET n == h.call.serviceName
        i == SectionOf(n)
        failed == [h EXCEPT !.sections[n] = "unhealthy"]
        filled == [h EXCEPT !.sections[n] = "healthy",
                            !.summary = assign(@, healthFields(n), Reported)]
        counted == [h EXCEPT !.summary = assign(@, {"categories"}, Reported)]
    IN
    IF h.call.path = "/health"
    THEN IF ~ok
         THEN aggregateFrom(failed, svcs, i + 1)
         ELSE IF n = "item-service"
         THEN await(filled, "aggregating",
                    OutboundCall(n, "/categories", CallTimeout))
         ELSE IF n = "list-service"
         THEN await(filled, "aggregating",
                    OutboundCall(n, "/lists", CallTimeout))
         ELSE aggregateFrom(filled, svcs, i + 1)
    ELSE IF h.call.path = "/categories"
    THEN aggregateFrom(IF ok THEN counted ELSE failed, svcs, i + 1)
    ELSE aggregateFrom([h EXCEPT
                           !.userLists = IF ok THEN "filled" ELSE "zero",
                           !.summary = assign(@, {"userLists"},
                                              IF ok THEN Reported ELSE 0)],
                       svcs, i + 1)

(* authMiddleware up to its await *)
authMiddleware(h, svcs) ==
    IF h.token = "none"
    THEN respond(h, 401)
    ELSE IF ~discover(svcs, "user-service").ok
    THEN respond([h EXCEPT !.validation = "undiscovered"], 401)
    ELSE await(h, "validating",
               OutboundCall("user-service", "/auth/validate", CallTimeout))

(* authMiddleware after the await: next() or 401 *)
(* variant: a validation that could not be made lets the request pass *)
authDecisionFailOpen(outcome) ==
    IF outcome \in {"success", "refused", "timeout"} THEN "next" ELSE "401"

authDecision(outcome) ==
    IF outcome = "success" THEN "next" ELSE "401"

authSettled(h, svcs, outcome) ==
    IF authDecision(outcome) = "next"
    THEN aggregateFrom([h EXCEPT !.validation = outcome, !.aggregated = TRUE],
                       svcs, 1)
    ELSE respond([h EXCEPT !.validation = outcome], 401)

(* req.query of GET /api/search: q is absent, empty or a term; type is one *)
(* of the selectors, 'all' when it is absent                               *)
QValues == {"absent", "", "leite"}
Types == {"all", "items", "lists"}
NoQuery == [q |-> "absent", type |-> "all"]
SearchQueries == [q : QValues, type : Types]

(* performGlobalSearch up to its await: both categories start empty; the   *)
(* item service is asked for 'all' and 'items'; nothing is asked for       *)
(* 'lists'                                                                 *)
(* variant: the item service is asked whatever the selector *)
performGlobalSearchAll(h, svcs) ==
    LET results == [h EXCEPT !.items = "empty", !.lists = "empty"] IN
    IF discover(svcs, "item-service").ok
    THEN await(results, "searching",
               OutboundCall("item-service", "/search", CallTimeout))
    ELSE respond(results, 200)

performGlobalSearch(h, svcs) ==
    LET results == [h EXCEPT !.items = "empty", !.lists = "empty"] IN
    IF h.type \in {"all", "items"}
    THEN IF discover(svcs, "item-service").ok
         THEN await(results, "searching",
                    OutboundCall("item-service", "/search", CallTimeout))
         ELSE respond(results, 200)
    ELSE respond(results, 200)

(* GET /api/search: 400 without q *)
search(h, svcs) ==
    IF h.q \in {"absent", ""}
    THEN respond(h, 400)
    ELSE performGlobalSearch(h, svcs)

(* GET /api/items/search up to its await: axios.get(url), no options *)
itemSearch(h, svcs) ==
    IF discover(svcs, "item-service").ok
    THEN await(h, "itemSearch",
               OutboundCall("item-service", "/search", NoTimeout))
    ELSE respond(h, 500)

handle(h, svcs) ==
    IF h.kind = "dashboard" THEN authMiddleware(h, svcs)
    ELSE IF h.kind = "search" THEN search(h, svcs)
    ELSE itemSearch(h, svcs)

(* the handler resumed with the outcome of the call it awaited *)
(* variant: a failed search call fails the search *)
resumePropagating(h, svcs, outcome) ==
    IF h.pc = "validating" THEN authSettled(h, svcs, outcome)
    ELSE IF h.pc = "aggregating"
    THEN aggregateSettled(h, svcs, outcome = "success")
    ELSE IF h.pc = "searching"
    THEN IF outcome = "success"
         THEN respond([h EXCEPT !.items = "filled"], 200)
         ELSE respond(h, 500)
    ELSE respond(h, IF outcome = "success" THEN 200 ELSE 500)

resume(h, svcs, outcome) ==
    IF h.pc = "validating" THEN authSettled(h, svcs, outcome)
    ELSE IF h.pc = "aggregating"
    THEN aggregateSettled(h, svcs, outcome = "success")
    ELSE IF h.pc = "searching"
    THEN respond([h EXCEPT !.items = IF outcome = "success"
                                     THEN "filled" ELSE "empty"], 200)
    ELSE respond(h, IF outcome = "success" THEN 200 ELSE 500)

(* what a downstream that is up answers: the identity service accepts the  *)
(* valid token and rejects the other, in a body or with an error status    *)
answers(h) ==
    IF h.pc = "validating" /\ h.token # "valid"
    THEN {"rejected", "error"}
    ELSE {"success"}

Awaiting == handler # NoHandler /\ handler.call # NoCall

InitGateway ==
    /\ now = StartTime
    /\ \E u \in Urls, p \in Pids :
          services = [n \in AllServices |-> ServiceRecord(u, p, StartTime)]
    /\ circuitBreakers = [n \in ServiceNames |-> NoBreaker]
    /\ inflight = [s \in Slots |-> NoCall]
    /\ hist = [n \in ServiceNames |-> << >>]
    /\ invocations = [n \in ServiceNames |-> 0]
    /\ requests = 0
    /\ lastRequest = NoRequest
    /\ lastCall = NoApiCall
    /\ lastWrite = [n \in ServiceNames |-> NoWrite]
    /\ pending = [p \in Processes |-> NoOperation]
    /\ sweep = NoSweep
    /\ procs = [p \in Processes |-> Running]
    /\ downstream = [n \in AllServices |-> "up"]
    /\ handler = NoHandler
    /\ routed = NoRoute
    /\ ListsIdle

GatewayUnchanged ==
    /\ UNCHANGED <<now, circuitBreakers, inflight, hist, invocations,
                   requests, lastRequest>>
    /\ UNCHANGED registryVars
    /\ UNCHANGED <<procs, routed>>
    /\ UNCHANGED listVars

(* A request arrives once the one before it has been answered. *)
Arrives(kind, token, query) ==
    /\ IF handler = NoHandler THEN TRUE ELSE handler.pc = "done"
    /\ kind # "dashboard" => token = "none"
    /\ kind # "search" => query = NoQuery
    /\ handler' = handle([Request(kind, token, services, downstream) EXCEPT
                             !.q = query.q, !.type = query.type],
                         services)
    /\ UNCHANGED <<services, downstream>>
    /\ GatewayUnchanged

CallAnswered(outcome) ==
    /\ Awaiting
    /\ downstream[handler.call.serviceName] = "up"
    /\ outcome \in answers(handler)
    /\ handler' = resume(handler, services, outcome)
    /\ UNCHANGED <<services, downstream>>
    /\ GatewayUnchanged

CallRefused ==
    /\ Awaiting
    /\ downstream[handler.call.serviceName] = "refusing"
    /\ handler' = resume(handler, services, "refused")
    /\ UNCHANGED <<services, downstream>>
    /\ GatewayUnchanged

(* axios rejects a call that has a timeout when it has run out *)
CallTimesOut ==
    /\ Awaiting
    /\ downstream[handler.call.serviceName] = "silent"
    /\ handler.call.timeout > 0
    /\ handler' = resume(handler, services, "timeout")
    /\ UNCHANGED <<services, downstream>>
    /\ GatewayUnchanged

CallSettles ==
    \/ \E o \in {"success", "rejected", "error"} : CallAnswered(o)
    \/ CallRefused
    \/ CallTimesOut

(* The surroundings change; a request that is being handled is no longer   *)
(* one made under the conditions it arrived in.                            *)
disturbed(h) ==
    IF h = NoHandler THEN h
    ELSE IF h.pc = "done" THEN h
    ELSE [h EXCEPT !.oneDown = "n/a"]

DownstreamChanges(serviceName, mode) ==
    /\ downstream[serviceName] # mode
    /\ downstream' = [downstream EXCEPT ![serviceName] = mode]
    /\ handler' = disturbed(handler)
    /\ UNCHANGED services
    /\ GatewayUnchanged

ServiceRegisters(serviceName, url, pid) ==
    /\ services' = register(services, serviceName, url, pid, now)
    /\ services' # services
    /\ handler' = disturbed(handler)
    /\ UNCHANGED downstream
    /\ GatewayUnchanged

ServiceUnregisters(serviceName) ==
    /\ services[serviceName] # NoService
    /\ services' = unregister(services, serviceName)
    /\ handler' = disturbed(handler)
    /\ UNCHANGED downstream
    /\ GatewayUnchanged

HealthChanges(serviceName, healthy) ==
    /\ services[serviceName] # NoService
    /\ services[serviceName].healthy # healthy
    /\ services' = updateHealth(services, serviceName, healthy, now)
    /\ handler' = disturbed(handler)
    /\ UNCHANGED downstream
    /\ GatewayUnchanged

Surroundings ==
    \/ \E n \in AllServices, m \in Modes : DownstreamChanges(n, m)
    \/ \E n \in AllServices, u \in Urls, p \in Pids : ServiceRegisters(n, u, p)
    \/ \E n \in AllServices : ServiceUnregisters(n)
    \/ \E n \in AllServices, h \in BOOLEAN : HealthChanges(n, h)

NextGateway ==
    \/ \E k \in Kinds, t \in Tokens, q \in SearchQueries : Arrives(k, t, q)
    \/ CallSettles
    \/ Surroundings

SpecGateway == InitGateway /\ [][NextGateway]_vars

(* Node runs a callback that is ready, and a timer that is set fires: a    *)
(* call that can settle does. Nothing obliges the surroundings to change.  *)
SpecGatewayLive == SpecGateway /\ WF_vars(CallSettles)

----------------------------------------------------------------------------
(* The forwarding handler and the gateway's own endpoints side by side:    *)
(* forwards fail and open breakers while dashboards and searches are       *)
(* served from the same downstreams.                                       *)
NextBypass ==
    \/ \E n \in ServiceNames : ProxyShortCircuit(n)
    \/ \E n \in ServiceNames, s \in Slots : ProxyInvoke(n, s)
    \/ \E s \in Slots : OperationRejects(s, RefusedError)
    \/ \E k \in {"dashboard", "search"}, t \in {"none", "valid"} :
          Arrives(k, t, IF k = "search"
                        THEN [q |-> "leite", type |-> "all"] ELSE NoQuery)
    \/ CallAnswered("success")
    \/ CallRefused
    \/ \E n \in ServiceNames, m \in {"up", "refusing"} :
          DownstreamChanges(n, m)

SpecBypass == InitGateway /\ [][NextBypass]_vars

----------------------------------------------------------------------------
(* The list service: shopping lists in lists.json, changed by handlers     *)
(* that read a list, change their copy and write the copy back             *)

MaxListOps == 4

(* what a request body can carry as "purchased", as the JSON it is sent    *)
(* as: the two booleans and, unvalidated, anything else                    *)
PurchasedValues == {"true", "false", "\"false\""}

(* JavaScript's truthiness, which filter(item => item.purchased) applies:  *)
(* a non-empty string is truthy, the boolean false is not                  *)
truthy(value) == value \in {"true", "\"false\""}

Statuses == {"active", "completed"}

ByIdOps == {"getList", "updateList", "deleteList", "addItemToList",
            "updateItemInList", "removeItemFromList", "getListSummary"}

(* the requests behind authMiddleware, req.user.id being the caller *)
ListRequests ==
    [op : {"createList"}, user : Users, id : {"none"}, itemId : {"none"},
     value : {"named", "unnamed"}]
    \cup [op : {"getLists"}, user : Users, id : {"none"},
          itemId : {"none"}, value : {"none"}]
    \cup [op : {"getList", "deleteList", "getListSummary"}, user : Users,
          id : ListIds, itemId : {"none"}, value : {"none"}]
    \cup [op : {"updateList"}, user : Users, id : ListIds,
          itemId : {"none"}, value : Statuses]
    \cup [op : {"addItemToList"}, user : Users, id : ListIds,
          itemId : CatalogItems, value : {"valid", "invalid"}]
    \cup [op : {"updateItemInList"}, user : Users, id : ListIds,
          itemId : CatalogItems, value : PurchasedValues \cup {"undefined"}]
    \cup [op : {"removeItemFromList"}, user : Users, id : ListIds,
          itemId : CatalogItems, value : {"none"}]

stored(list) == list.userId # "nobody"

updateListSummary(list) ==
    [list EXCEPT !.summary =
        [totalItems |-> Len(list.items),
         purchasedItems |->
            Cardinality({i \in DOMAIN list.items :
                            truthy(list.items[i].purchased)})]]

findIndex(items, itemId) ==
    IF \E i \in DOMAIN items : items[i].itemId = itemId
    THEN CHOOSE i \in DOMAIN items :
            /\ items[i].itemId = itemId
            /\ \A j \in DOMAIN items : items[j].itemId = itemId => i <= j
    ELSE 0

splice(items, index) ==
    [i \in 1..(Len(items) - 1) |->
        IF i < index THEN items[i] ELSE items[i + 1]]

(* the ownership test of every handler that takes a list id *)
ownsAny(list, user) == TRUE
owns(list, user) == list.userId = user

newList(user) ==
    [userId |-> user, status |-> "active", items |-> <<>>,
     summary |-> [totalItems |-> 0, purchasedItems |-> 0]]

(* the status a handler answers with once its write has been made *)
writtenStatus(op) ==
    IF op \in {"createList", "addItemToList"} THEN 201 ELSE 200

(* res.status(status).json(...) on the connection; returned names the      *)
(* lists whose content the body carries                                    *)
listRespond(c, r, status, returned) ==
    /\ listReply' = [listReply EXCEPT ![c] =
            [seq |-> listRequests, op |-> r.op, user |-> r.user,
             id |-> r.id, itemId |-> r.itemId, value |-> r.value,
             status |-> status, returned |-> returned]]
    /\ listOps' = [listOps EXCEPT ![c] = NoOp]

listAwait(c, h, pc) ==
    /\ listOps' = [listOps EXCEPT ![c] = [h EXCEPT !.pc = pc]]
    /\ UNCHANGED listReply

(* a step of the list service leaves the gateway and the registry alone *)
ListsUnchanged ==
    /\ UNCHANGED <<now, services, circuitBreakers, inflight, hist,
                   invocations, requests, lastRequest>>
    /\ UNCHANGED registryVars
    /\ UNCHANGED gatewayVars

(* the uuid of a new list is one no list has or had and no other handler   *)
(* has drawn                                                               *)
freshIds ==
    {i \in ListIds :
        /\ lists[i] = NoList
        /\ \A c \in Connections :
              listOps[c] = NoOp \/ listOps[c].id # i}

(* A request arrives on an idle connection; the handler runs up to its     *)
(* first await: createList refuses a body without name, addItemToList one  *)
(* without itemId or quantity, before anything is read.                    *)
ListArrives(c, r) ==
    /\ listOps[c] = NoOp
    /\ listRequests < MaxListOps
    /\ r.op = "createList" /\ r.value = "named" => freshIds # {}
    /\ listRequests' = listRequests + 1
    /\ LET h == [op |-> r.op, user |-> r.user,
                 id |-> IF r.op = "createList" /\ r.value = "named"
                        THEN CHOOSE i \in freshIds : TRUE
                        ELSE r.id,
                 itemId |-> r.itemId, value |-> r.value, pc |-> "start",
                 list |-> NoList, docs |-> [i \in ListIds |-> NoList]]
       IN  CASE r.op = "createList" ->
                    IF r.value = "unnamed"
                    THEN listRespond(c, r, 400, {})
                    ELSE listAwait(c, [h EXCEPT !.list = newList(r.user)],
                                   "readAll")
             [] r.op = "getLists" -> listAwait(c, h, "find")
             [] r.op = "addItemToList" /\ r.value = "invalid" ->
                    listRespond(c, r, 400, {})
             [] OTHER -> listAwait(c, h, "findById")
    /\ UNCHANGED lists
    /\ ListsUnchanged

(* listsDb.find({ userId: req.user.id }) resolves: GET /lists answers *)
ListsFound(c) ==
    /\ listOps[c] # NoOp
    /\ listOps[c].pc = "find"
    /\ listRespond(c, listOps[c], 200,
                   {i \in ListIds : lists[i].userId = listOps[c].user})
    /\ UNCHANGED <<lists, listRequests>>
    /\ ListsUnchanged

(* listsDb.findById(id) resolves: 404 without the list, 403 for a list of  *)
(* another user; then the reads answer and the writes change their copy    *)
ListFound(c) ==
    /\ listOps[c] # NoOp
    /\ listOps[c].pc = "findById"
    /\ LET h == listOps[c]
           list == lists[h.id]
           index == findIndex(list.items, h.itemId)
       IN  IF ~stored(list) THEN listRespond(c, h, 404, {})
           ELSE IF ~owns(list, h.user) THEN listRespond(c, h, 403, {})
           ELSE CASE h.op \in {"getList", "getListSummary"} ->
                        listRespond(c, h, 200, {h.id})
                  [] h.op = "updateList" ->
                        listAwait(c, [h EXCEPT !.list =
                                        [list EXCEPT !.status = h.value]],
                                  "readAll")
                  [] h.op = "deleteList" ->
                        listAwait(c, [h EXCEPT !.list = list], "readAll")
                  [] h.op = "addItemToList" ->
                        listAwait(c, [h EXCEPT !.list = list], "item")
                  [] h.op = "updateItemInList" ->
                        IF index = 0 THEN listRespond(c, h, 404, {})
                        ELSE listAwait(c, [h EXCEPT !.list =
                                updateListSummary(
                                    IF h.value = "undefined" THEN list
                                    ELSE [list EXCEPT
                                            !.items[index].purchased =
                                                h.value])],
                                "readAll")
                  [] h.op = "removeItemFromList" ->
                        IF index = 0 THEN listRespond(c, h, 404, {})
                        ELSE listAwait(c, [h EXCEPT !.list =
                                updateListSummary(
                                    [list EXCEPT !.items =
                                        splice(list.items, index)])],
                                "readAll")
    /\ UNCHANGED <<lists, listRequests>>
    /\ ListsUnchanged

(* The item service answers addItemToList's lookup: the item is in the     *)
(* catalog, is not, or the service cannot be reached. A found item that    *)
(* the handler's copy of the list holds already is refused; otherwise it   *)
(* is pushed, not purchased, and the summary recomputed.                   *)
ItemFetched(c, outcome) ==
    /\ listOps[c] # NoOp
    /\ listOps[c].pc = "item"
    /\ LET h == listOps[c]
       IN  CASE outcome = "unavailable" -> listRespond(c, h, 503, {})
             [] outcome = "missing" -> listRespond(c, h, 404, {})
             [] outcome = "found" ->
                    IF findIndex(h.list.items, h.itemId) # 0
                    THEN listRespond(c, h, 409, {})
                    ELSE listAwait(c, [h EXCEPT !.list =
                            updateListSummary(
                                [h.list EXCEPT !.items =
                                    Append(h.list.items,
                                           [itemId |-> h.itemId,
                                            purchased |-> "false"])])],
                            "readAll")
    /\ UNCHANGED <<lists, listRequests>>
    /\ ListsUnchanged

(* JsonDatabase.create, update and delete begin with readAll(): the        *)
(* handler holds a copy of the whole file                                  *)
DbReads(c) ==
    /\ listOps[c] # NoOp
    /\ listOps[c].pc = "readAll"
    /\ listAwait(c, [listOps[c] EXCEPT !.docs = lists], "writeAll")
    /\ UNCHANGED <<lists, listRequests>>
    /\ ListsUnchanged

(* what create, update and delete make of the documents they read: the     *)
(* new document pushed, the document replaced by the handler's copy, the   *)
(* document spliced out; update and delete of a document that is not in    *)
(* what they read write nothing                                            *)
written(h) ==
    CASE h.op = "createList" -> [h.docs EXCEPT ![h.id] = h.list]
      [] h.op = "deleteList" /\ stored(h.docs[h.id]) ->
            [h.docs EXCEPT ![h.id] = Gone]
      [] h.op # "deleteList" /\ stored(h.docs[h.id]) ->
            [h.docs EXCEPT ![h.id] = h.list]
      [] OTHER -> lists

(* writeAll(documents) replaces the file by the handler's copy of it, and  *)
(* the handler answers                                                     *)
DbWrites(c) ==
    /\ listOps[c] # NoOp
    /\ listOps[c].pc = "writeAll"
    /\ lists' = written(listOps[c])
    /\ listRespond(c, listOps[c], writtenStatus(listOps[c].op),
                   IF listOps[c].op = "deleteList" THEN {}
                   ELSE {listOps[c].id})
    /\ UNCHANGED listRequests
    /\ ListsUnchanged

(* the list service handling one request after the other *)
NextLists ==
    \/ \E r \in ListRequests : ListArrives(1, r)
    \/ ListsFound(1)
    \/ ListFound(1)
    \/ \E o \in {"found", "missing", "unavailable"} :
          ItemFetched(1, o)
    \/ DbReads(1)
    \/ DbWrites(1)

SpecLists == Init /\ [][NextLists]_vars

----------------------------------------------------------------------------
(* the list service handling add-item requests of the owner of a list on  *)
(* two connections at once, each handler running from one await to the    *)
(* next between the steps of the other; the list is the one a createList  *)
(* of the user has stored                                                 *)
RaceRequests ==
    {r \in ListRequests :
        r.user = "u1" /\ r.op = "addItemToList" /\ r.value = "valid"}

InitListRace ==
    /\ now = StartTime
    /\ services = [n \in ServiceNames |-> NoService]
    /\ circuitBreakers = [n \in ServiceNames |-> NoBreaker]
    /\ inflight = [s \in Slots |-> NoCall]
    /\ hist = [n \in ServiceNames |-> << >>]
    /\ invocations = [n \in ServiceNames |-> 0]
    /\ requests = 0
    /\ lastRequest = NoRequest
    /\ lastCall = NoApiCall
    /\ lastWrite = [n \in ServiceNames |-> NoWrite]
    /\ pending = [p \in Processes |-> NoOperation]
    /\ sweep = NoSweep
    /\ procs = [p \in Processes |-> Running]
    /\ downstream = [n \in AllServices |-> "up"]
    /\ handler = NoHandler
    /\ routed = NoRoute
    /\ lists = [i \in ListIds |->
                    IF i = "L1" THEN newList("u1") ELSE NoList]
    /\ listOps = [c \in Connections |-> NoOp]
    /\ listReply = [c \in Connections |-> NoReply]
    /\ listRequests = 0

NextListRace ==
    \/ \E c \in Connections, r \in RaceRequests :
          ListArrives(c, r)
    \/ \E c \in Connections : ListFound(c)
    \/ \E c \in Connections,
            o \in {"found", "missing", "unavailable"} :
          ItemFetched(c, o)
    \/ \E c \in Connections : DbReads(c)
    \/ \E c \in Connections : DbWrites(c)

SpecListRace == InitListRace /\ [][NextListRace]_vars

----------------------------------------------------------------------------
(* Vocabulary of the properties *)

HasBreaker(n) == circuitBreakers[n] # NoBreaker
IsOpen(n) == HasBreaker(n) /\ circuitBreakers[n].state = "open"
IsHalfOpen(n) == HasBreaker(n) /\ circuitBreakers[n].state = "half-open"
PendingFor(n) ==
    {s \in Slots : inflight[s] # NoCall /\ inflight[s].serviceName = n}
SinceLastFailure(n) == now - circuitBreakers[n].lastFailTime

(* steps: a call for n ended as ev; its operation was invoked; a call for  *)
(* n reached executeWithCircuitBreaker; the pending call of slot s ended   *)
Ended(n, ev) == hist'[n] = Append(hist[n], ev)
Invoked(n) == invocations'[n] = invocations[n] + 1
Called(n) == Invoked(n) \/ Ended(n, "X")
Settled(s, ev) ==
    /\ inflight[s] # NoCall
    /\ inflight'[s] = NoCall
    /\ Ended(inflight[s].serviceName, ev)

HasFailureRun(h, k) ==
    \E i \in 1..(Len(h) - k + 1) : \A j \in i..(i + k - 1) : h[j] = "F"

FewFailures == {<<"F">>, <<"F", "F">>}
ThreeFailures == <<"F", "F", "F">>

----------------------------------------------------------------------------
(* C1: when exactly three calls were made for a name and all three failed, *)
(* the breaker is open, and a fourth call made before the cooldown has     *)
(* elapsed is short-circuited with the circuit-open error, the invocation  *)
(* count staying at three; after one or two failures the breaker is still  *)
(* closed and the next call is invoked.                                    *)
C1_OpensAfterThreeFailures ==
    [][\A n \in ServiceNames :
         /\ hist'[n] \in FewFailures => circuitBreakers'[n].state = "closed"
         /\ hist[n] \in FewFailures /\ Called(n) => Invoked(n)
         /\ hist'[n] = ThreeFailures /\ invocations'[n] = FailureThreshold
               => circuitBreakers'[n].state = "open"
         /\ /\ hist[n] = ThreeFailures
            /\ invocations[n] = FailureThreshold
            /\ SinceLastFailure(n) < Cooldown
            /\ Called(n)
            => /\ Ended(n, "X")
               /\ invocations'[n] = FailureThreshold
               /\ lastRequest'.returned = execThrow(CircuitOpenError)
      ]_vars

C1_Witness ==
    \E n \in ServiceNames :
        /\ hist[n] = ThreeFailures \o <<"X">>
        /\ invocations[n] = FailureThreshold
        /\ IsOpen(n)

(* C2: a call made while the breaker is open and less than the cooldown    *)
(* has passed since the last failure fails with the circuit-open error,    *)
(* does not invoke the operation and leaves the breaker as it was.         *)
C2_OpenShortCircuits ==
    [][\A n \in ServiceNames :
         IsOpen(n) /\ SinceLastFailure(n) < Cooldown /\ Called(n)
         => /\ Ended(n, "X")
            /\ invocations' = invocations
            /\ inflight' = inflight
            /\ circuitBreakers'[n] = circuitBreakers[n]
            /\ lastRequest'.operation = NotInvoked
            /\ lastRequest'.returned = execThrow(CircuitOpenError)
      ]_vars

C2_Witness ==
    \E n \in ServiceNames :
        /\ IsOpen(n)
        /\ SinceLastFailure(n) > 0
        /\ SinceLastFailure(n) < Cooldown
        /\ hist[n] # << >>
        /\ hist[n][Len(hist[n])] = "X"
        /\ lastRequest.serviceName = n
        /\ lastRequest.operation = NotInvoked

(* C3, as claimed: a call made to an open breaker when at least the        *)
(* cooldown has passed since the last failure, exactly the cooldown        *)
(* included, moves the breaker to half-open and invokes the operation.     *)
C3_TrialAtCooldown ==
    [][\A n \in ServiceNames :
         IsOpen(n) /\ SinceLastFailure(n) >= Cooldown /\ Called(n)
         => Invoked(n) /\ circuitBreakers'[n].state = "half-open"
      ]_vars

(* C3, amended: a call made to an open breaker when more than the cooldown *)
(* has passed since the last failure moves the breaker to half-open and    *)
(* invokes the operation; at exactly the cooldown it is short-circuited.   *)
C3_TrialAfterCooldown ==
    [][\A n \in ServiceNames :
         /\ IsOpen(n) /\ SinceLastFailure(n) > Cooldown /\ Called(n)
            => Invoked(n) /\ circuitBreakers'[n].state = "half-open"
         /\ IsOpen(n) /\ SinceLastFailure(n) = Cooldown /\ Called(n)
            => Ended(n, "X") /\ circuitBreakers'[n] = circuitBreakers[n]
      ]_vars

C3_Witness ==
    \E n \in ServiceNames, s \in Slots :
        /\ IsHalfOpen(n)
        /\ s \in PendingFor(n)
        /\ inflight[s].trial
        /\ inflight[s].start - circuitBreakers[n].lastFailTime > Cooldown

(* C4: a success in the closed state leaves failureCount at 0, so the      *)
(* breaker is open only after three failures in a row.                     *)
C4_OnlyConsecutiveFailuresOpen ==
    \A n \in ServiceNames :
        HasBreaker(n) =>
            /\ /\ circuitBreakers[n].state = "closed"
               /\ hist[n] # << >>
               /\ hist[n][Len(hist[n])] = "S"
               => circuitBreakers[n].failureCount = 0
            /\ circuitBreakers[n].state = "open"
               => HasFailureRun(hist[n], FailureThreshold)

(* C5: when the trial call, the one that moved the breaker to half-open,   *)
(* succeeds, the breaker is closed with failureCount 0.                    *)
C5_TrialSuccessCloses ==
    [][\A s \in Slots :
         Settled(s, "S") /\ inflight[s].trial
         => /\ circuitBreakers'[inflight[s].serviceName].state = "closed"
            /\ circuitBreakers'[inflight[s].serviceName].failureCount = 0
      ]_vars

(* C6: when the trial call fails, the breaker is open again with           *)
(* lastFailTime set to the time of that failure.                           *)
C6_TrialFailureReopens ==
    [][\A s \in Slots :
         Settled(s, "F") /\ inflight[s].trial
         => /\ circuitBreakers'[inflight[s].serviceName].state = "open"
            /\ circuitBreakers'[inflight[s].serviceName].lastFailTime = now
      ]_vars

(* C7: while a breaker is half-open, the trial call is the only call for   *)
(* that name whose operation is pending.                                   *)
C7_SingleTrial ==
    \A n \in ServiceNames :
        IsHalfOpen(n) =>
            /\ Cardinality(PendingFor(n)) <= 1
            /\ \A s \in PendingFor(n) : inflight[s].trial

(* C8: every rejection of the wrapped operation, whatever its cause, adds  *)
(* exactly one to failureCount, stamps lastFailTime and reaches the caller *)
(* as an error.                                                            *)
C8_RejectionCounted ==
    [][\A s \in Slots :
         Settled(s, "F")
         => LET n == inflight[s].serviceName IN
            /\ circuitBreakers'[n].failureCount
                  = circuitBreakers[n].failureCount + 1
            /\ circuitBreakers'[n].lastFailTime = now
            /\ lastRequest'.serviceName = n
            /\ lastRequest'.operation \in {execThrow(e) : e \in OperationErrors}
            /\ lastRequest'.returned.kind = "error"
            /\ lastRequest'.response.status >= 400
      ]_vars

C8_Witness ==
    /\ lastRequest # NoRequest
    /\ lastRequest.operation = execThrow(TimeoutError)
    /\ lastRequest.returned.kind = "error"
    /\ HasBreaker(lastRequest.serviceName)
    /\ circuitBreakers[lastRequest.serviceName].failureCount >= 1
    /\ circuitBreakers[lastRequest.serviceName].lastFailTime = now

(* C9: executeWithCircuitBreaker returns the operation's result, rethrows  *)
(* the operation's own error after the breaker was updated, and throws the *)
(* circuit-open error exactly when the call was short-circuited.           *)
C9_ResultOrOriginalError ==
    [][\A n \in ServiceNames :
         /\ Ended(n, "S")
            => /\ lastRequest'.operation.kind = "result"
               /\ lastRequest'.returned = lastRequest'.operation
         /\ Ended(n, "F")
            => /\ lastRequest'.operation.kind = "error"
               /\ lastRequest'.returned = lastRequest'.operation
               /\ circuitBreakers'[n] # circuitBreakers[n]
         /\ Ended(n, "X")
            => /\ lastRequest'.operation = NotInvoked
               /\ lastRequest'.returned = execThrow(CircuitOpenError)
         /\ Ended(n, "S") \/ Ended(n, "F")
            => lastRequest'.returned # execThrow(CircuitOpenError)
      ]_vars

C9_Witness ==
    /\ lastRequest # NoRequest
    /\ lastRequest.operation = execThrow(HttpError(404))
    /\ lastRequest.returned = lastRequest.operation
    /\ lastRequest.response.status = 404

(* C10: a breaker entry exists for a name exactly when a forwarded call    *)
(* for it reached executeWithCircuitBreaker; a request whose discovery     *)
(* failed creates none; a new entry is closed with failureCount 0; a call  *)
(* for one name leaves the entries of the other names as they were.        *)
C10_OneBreakerPerRoutedName ==
    [][\A n \in ServiceNames :
         /\ HasBreaker(n)' <=> (invocations'[n] > 0 \/ hist'[n] # << >>)
         /\ ~HasBreaker(n) /\ HasBreaker(n)'
            => /\ Called(n)
               /\ circuitBreakers'[n].state = "closed"
               /\ circuitBreakers'[n].failureCount = 0
         /\ circuitBreakers'[n] # circuitBreakers[n]
            => invocations'[n] # invocations[n] \/ hist'[n] # hist[n]
         /\ lastRequest' # lastRequest /\ lastRequest'.operation = NotReached
            => circuitBreakers' = circuitBreakers
      ]_vars

C10_Witness ==
    \E n, m \in ServiceNames :
        /\ n # m
        /\ IsOpen(n)
        /\ ~HasBreaker(m)
        /\ lastRequest.serviceName = m
        /\ lastRequest.operation = NotReached

-----------------------------------------------------------------------------
(* Claims about the registry API, under SpecRegistry *)

(* the step is the call of the registry API that lastCall' describes *)
ApiCall(op) ==
    /\ now' = now
    /\ sweep' = sweep
    /\ pending' = pending
    /\ lastCall' # NoApiCall
    /\ lastCall'.op = op

LastWriteWas(n, op) == lastWrite[n] # NoWrite /\ lastWrite[n].op = op

NotFound == [ok |-> FALSE, error |-> NotFoundError]
Unavailable == [ok |-> FALSE, error |-> UnavailableError]

(* C11: once register(name, info) has written, and as long as nothing      *)
(* else writes to the name, discover(name) returns a record with healthy   *)
(* true and the url of info; so it is when the record register found was   *)
(* unhealthy.                                                              *)
C11_RegisterThenDiscover ==
    [][\A n \in ServiceNames :
         /\ ApiCall("register") /\ lastCall'.serviceName = n
            => /\ services'[n] # NoService
               /\ services'[n].healthy = TRUE
               /\ services'[n].url = lastCall'.url
               /\ LastWriteWas(n, "register")'
         /\ ApiCall("discover") /\ lastCall'.serviceName = n
               /\ LastWriteWas(n, "register")
            => /\ lastCall'.result.ok
               /\ lastCall'.result.service.healthy = TRUE
               /\ lastCall'.result.service.url = lastWrite[n].arg
      ]_vars

C11_Witness ==
    /\ lastCall # NoApiCall
    /\ lastCall.op = "register"
    /\ lastCall.found # NoService
    /\ ~lastCall.found.healthy
    /\ LastWriteWas(lastCall.serviceName, "register")
    /\ discover(services, lastCall.serviceName).ok
    /\ discover(services, lastCall.serviceName).service.url = lastCall.url

(* C12: discover(name) for a name without a record fails with the          *)
(* not-found error and leaves the store as it was.                         *)
C12_DiscoverAbsentNotFound ==
    [][\A n \in ServiceNames :
         ApiCall("discover") /\ lastCall'.serviceName = n
            /\ services[n] = NoService
         => /\ lastCall'.result = NotFound
            /\ services' = services
      ]_vars

C12_Witness ==
    /\ lastCall # NoApiCall
    /\ lastCall.op = "discover"
    /\ lastCall.result = NotFound
    /\ services[lastCall.serviceName] = NoService
    /\ \E m \in ServiceNames : services[m] # NoService

(* C13: for a name that has a record, from updateHealth(name, false) until *)
(* the next register(name) or updateHealth(name, true), discover(name)     *)
(* fails with the unavailable error, which is not the not-found error, and *)
(* does not return the record.                                             *)
C13_UnhealthyUnavailable ==
    [][\A n \in ServiceNames :
         ApiCall("discover") /\ lastCall'.serviceName = n
            /\ services[n] # NoService
            /\ LastWriteWas(n, "updateHealth") /\ lastWrite[n].arg = FALSE
         => /\ lastCall'.result = Unavailable
            /\ lastCall'.result # NotFound
            /\ ~lastCall'.result.ok
      ]_vars

C13_Witness ==
    /\ lastCall # NoApiCall
    /\ lastCall.op = "discover"
    /\ lastCall.result = Unavailable
    /\ LastWriteWas(lastCall.serviceName, "updateHealth")
    /\ lastWrite[lastCall.serviceName].arg = FALSE
    /\ services[lastCall.serviceName] # NoService

(* C14: unregister(name) returns true exactly when name had a record; it   *)
(* removes that record and no other, and discover(name) then fails with    *)
(* the not-found error; without a record it returns false and the store    *)
(* stays as it was.                                                        *)
C14_UnregisterRemovesOne ==
    [][\A n \in ServiceNames :
         /\ ApiCall("unregister") /\ lastCall'.serviceName = n
            => /\ lastCall'.result = Returned(services[n] # NoService)
               /\ services'[n] = NoService
               /\ \A m \in ServiceNames \ {n} : services'[m] = services[m]
               /\ services[n] = NoService => services' = services
         /\ ApiCall("discover") /\ lastCall'.serviceName = n
               /\ LastWriteWas(n, "unregister")
            => lastCall'.result = NotFound
      ]_vars

C14_Witness ==
    /\ lastCall # NoApiCall
    /\ lastCall.op = "unregister"
    /\ lastCall.result = Returned(TRUE)
    /\ services[lastCall.serviceName] = NoService
    /\ \E m \in ServiceNames :
          /\ services[m] # NoService
          /\ services[m].pid = lastWrite[lastCall.serviceName].pid

(* C15: cleanup of the process with pid P removes every record whose pid   *)
(* is P; every record with another pid stays, unchanged.                   *)
C15_CleanupRemovesOwn ==
    [][ApiCall("cleanup")
         => \A n \in ServiceNames :
               /\ services[n] # NoService /\ services[n].pid = lastCall'.pid
                  => services'[n] = NoService
               /\ services[n] # NoService /\ services[n].pid # lastCall'.pid
                  => services'[n] = services[n]
               /\ services[n] = NoService => services'[n] = NoService
      ]_vars

C15_Witness ==
    /\ lastCall # NoApiCall
    /\ lastCall.op = "cleanup"
    /\ \E n, m \in ServiceNames :
          /\ LastWriteWas(n, "cleanup")
          /\ lastWrite[n].pid = lastCall.pid
          /\ services[n] = NoService
          /\ services[m] # NoService
          /\ services[m].pid # lastCall.pid

(* C16: a name has at most one record; register for a name that has one    *)
(* replaces it whole, url and pid included, whoever owned it; the records  *)
(* of the other names stay as they were.                                   *)
C16_LastRegisterWins ==
    [][\A n \in ServiceNames :
         ApiCall("register") /\ lastCall'.serviceName = n
         => /\ services'[n] = [url |-> lastCall'.url,
                               registeredAt |-> now,
                               lastHealthCheck |-> now,
                               healthy |-> TRUE,
                               pid |-> lastCall'.pid]
            /\ \A m \in ServiceNames \ {n} : services'[m] = services[m]
      ]_vars

C16_Witness ==
    /\ lastCall # NoApiCall
    /\ lastCall.op = "register"
    /\ lastCall.found # NoService
    /\ lastCall.found.url # lastCall.url
    /\ lastCall.found.pid # lastCall.pid
    /\ services[lastCall.serviceName].url = lastCall.url
    /\ services[lastCall.serviceName].pid = lastCall.pid
    /\ \E m \in ServiceNames \ {lastCall.serviceName} :
          services[m] # NoService

(* C20: listServices returns an entry for each name that has a record and  *)
(* for no other, with the url, the health flag and the pid of the record,  *)
(* and leaves the store as it was.                                         *)
C20_ListMatchesStore ==
    [][ApiCall("listServices")
         => /\ DOMAIN lastCall'.result.value
                  = {n \in ServiceNames : services[n] # NoService}
            /\ \A n \in DOMAIN lastCall'.result.value :
                  /\ lastCall'.result.value[n].url = services[n].url
                  /\ lastCall'.result.value[n].healthy = services[n].healthy
                  /\ lastCall'.result.value[n].pid = services[n].pid
            /\ services' = services
      ]_vars

C20_Witness ==
    /\ lastCall # NoApiCall
    /\ lastCall.op = "listServices"
    /\ DOMAIN lastCall.result.value = ServiceNames
    /\ \E n, m \in ServiceNames :
          /\ lastCall.result.value[n].healthy
          /\ ~lastCall.result.value[m].healthy
          /\ lastCall.result.value[n].pid # lastCall.result.value[m].pid

-----------------------------------------------------------------------------
(* Claims about concurrent writers, under SpecRace *)

(* C17: two processes run registry writes for different names at the same  *)
(* time; once both calls are over the store holds what each of them wrote, *)
(* however their reads and writes of the file fell.                        *)
C17_NoWriteLost ==
    (\A p \in Processes : pending[p] = NoOperation)
    => \A n \in ServiceNames :
          lastWrite[n] # NoWrite => services[n] = lastWrite[n].record

-----------------------------------------------------------------------------
(* Claims about the health sweep, under SpecSweep *)

(* the step is the end of the probe of n: its outcome is applied *)
SweepProbes(n) ==
    /\ sweep # NoSweep
    /\ sweep' # NoSweep
    /\ sweep'.snapshot = sweep.snapshot
    /\ Len(sweep'.probes) = Len(sweep.probes) + 1
    /\ sweep'.probes[Len(sweep'.probes)].serviceName = n

LastOutcome(sw) == sw.probes[Len(sw.probes)].outcome

(* C18: performHealthChecks probes every record the registry held when the *)
(* sweep started; the health flag written for a record is true when its    *)
(* own probe succeeded and false when it failed or timed out, whatever the *)
(* other probes did; a failed or timed-out probe does not keep the other   *)
(* records from being probed and updated.                                  *)
C18_SweepProbesAll ==
    [][/\ sweep' # sweep /\ sweep' # NoSweep /\ sweep'.probes = << >>
          => sweep'.snapshot = {n \in ServiceNames : services[n] # NoService}
       /\ \A n \in ServiceNames :
             SweepProbes(n)
             => /\ n \in sweep.snapshot \ Probed(sweep)
                /\ services[n] # NoService
                   => services'[n] =
                         [services[n] EXCEPT
                             !.healthy = (LastOutcome(sweep') = "ok"),
                             !.lastHealthCheck = now]
                /\ \A m \in ServiceNames \ {n} : services'[m] = services[m]
       /\ sweep' # NoSweep /\ sweep'.finished
          => Probed(sweep') = sweep'.snapshot
       /\ sweep # NoSweep /\ ~sweep.finished /\ sweep' # sweep
          => \E n \in sweep.snapshot : SweepProbes(n)
       /\ sweep # NoSweep /\ ~sweep.finished
          => \A n \in sweep.snapshot \ Probed(sweep), o \in Outcomes :
                ENABLED SweepProbe(n, o)
      ]_vars

C18_Witness ==
    /\ sweep # NoSweep
    /\ sweep.finished
    /\ sweep.snapshot = ServiceNames
    /\ Len(sweep.probes) = Cardinality(ServiceNames)
    /\ sweep.probes[1].outcome \in {"failed", "timeout"}
    /\ sweep.probes[1].found
    /\ sweep.probes[2].outcome = "ok"
    /\ sweep.probes[2].found
    /\ LastWriteWas(sweep.probes[1].serviceName, "updateHealth")
    /\ lastWrite[sweep.probes[1].serviceName].pid = Gateway
    /\ ~services[sweep.probes[1].serviceName].healthy
    /\ LastWriteWas(sweep.probes[2].serviceName, "updateHealth")
    /\ lastWrite[sweep.probes[2].serviceName].pid = Gateway
    /\ services[sweep.probes[2].serviceName].healthy

(* C19: updateHealth(name, h) for a name without a record leaves the store *)
(* as it was and raises no error; so a probe of the sweep that ends after  *)
(* its record was unregistered does not bring the record back.             *)
C19_UpdateHealthAbsentNoOp ==
    [][\A n \in ServiceNames :
         /\ ApiCall("updateHealth") /\ lastCall'.serviceName = n
               /\ services[n] = NoService
            => /\ services' = services
               /\ lastCall'.result = Returned(Undefined)
         /\ SweepProbes(n) /\ services[n] = NoService
            => services' = services
      ]_vars

C19_Witness ==
    /\ sweep # NoSweep
    /\ \E i \in 1..Len(sweep.probes) :
          /\ ~sweep.probes[i].found
          /\ sweep.probes[i].serviceName \in sweep.snapshot
          /\ services[sweep.probes[i].serviceName] = NoService
          /\ LastWriteWas(sweep.probes[i].serviceName, "unregister")

-----------------------------------------------------------------------------
(* Claims about a registry file that is missing or unreadable, under       *)
(* SpecStore                                                               *)

(* C21: while the registry file is missing or cannot be read, every call   *)
(* of the registry behaves as on an empty table and raises nothing of its  *)
(* own: discover fails with the not-found error, listServices returns no   *)
(* entry, register returns and what it writes is the table with its one    *)
(* record.                                                                 *)
C21_UnreadableStoreIsEmpty ==
    [][~Readable(services) /\ lastCall' # NoApiCall
       => /\ ~lastCall'.readable
          /\ lastCall'.op = "discover" => lastCall'.result = NotFound
          /\ lastCall'.op = "listServices"
             => lastCall'.result = Returned(listServices(EmptyRegistry, now))
                /\ DOMAIN lastCall'.result.value = {}
          /\ lastCall'.op = "register"
             => /\ lastCall'.result = Returned(Undefined)
                /\ lastCall'.found = NoService
                /\ \/ services' = register(EmptyRegistry,
                                           lastCall'.serviceName,
                                           lastCall'.url, lastCall'.pid, now)
                   \/ services = UnreadableFile /\ services' = services
                /\ services = MissingFile => Readable(services')
          /\ lastCall'.op = "unregister"
             => lastCall'.result = Returned(FALSE) /\ services' = services
          /\ lastCall'.op \in {"updateHealth", "cleanup"}
             => lastCall'.result = Returned(Undefined) /\ services' = services
      ]_vars

C21_Witness ==
    /\ lastCall # NoApiCall
    /\ lastCall.op = "register"
    /\ ~lastCall.readable
    /\ Readable(services)
    /\ services = register(EmptyRegistry, lastCall.serviceName, lastCall.url,
                           lastCall.pid, now)
    /\ \E n \in ServiceNames : lastWrite[n] # NoWrite /\ services[n] = NoService

-----------------------------------------------------------------------------
(* Claims about termination signals, under SpecShutdown *)

(* C22: a process that receives SIGTERM or SIGINT unregisters the name of  *)
(* its own service and runs cleanup for its own pid before it exits, and   *)
(* after the exit the store holds no record this process registered.       *)
C22_SignalUnregistersAndCleans ==
    [][\A p \in Processes :
         procs[p] = Running /\ procs'[p] # Running
         => /\ \E i \in 1..Len(procs'[p].calls) :
                  procs'[p].calls[i] = "unregister"
            /\ \E i \in 1..Len(procs'[p].calls) :
                  procs'[p].calls[i] = "cleanup"
            /\ services'[OwnName(p)] = NoService
            /\ \A n \in ServiceNames :
                  services'[n] # NoService => services'[n].pid # p
      ]_vars

-----------------------------------------------------------------------------
(* Claims about the responses of proxyToService *)

(* the step answers a forwarded request whose discovery failed *)
DiscoveryFailed(n) ==
    /\ lastRequest' # lastRequest
    /\ lastRequest'.operation = NotReached
    /\ lastRequest'.serviceName = n

(* C23: a forwarded request whose discovery fails, the name having no      *)
(* record or an unhealthy one, is answered 503 with the service name in    *)
(* the body; no downstream call is made and no breaker is touched.         *)
C23_DiscoveryFailure503 ==
    [][\A n \in ServiceNames :
         DiscoveryFailed(n)
         => /\ ~discover(services, n).ok
            /\ lastRequest'.response.status = 503
            /\ lastRequest'.response.service = n
            /\ circuitBreakers' = circuitBreakers
            /\ invocations' = invocations
            /\ inflight' = inflight
      ]_vars

(* C24: a forwarded request that fails without an HTTP response of the     *)
(* downstream is answered by the class of the failure alone: circuit open  *)
(* gives 503 with the circuit-open mark and no downstream call, a refused  *)
(* or unreachable connection gives 503, everything else, the timeout       *)
(* included, gives 500; the body names the service.                        *)
C24_StatusByFailureClass ==
    [][\A n \in ServiceNames :
         /\ Ended(n, "X")
            => /\ lastRequest'.response.status = 503
               /\ lastRequest'.response.body = "circuit-open"
               /\ lastRequest'.response.service = n
               /\ lastRequest'.operation = NotInvoked
               /\ invocations' = invocations
         /\ Ended(n, "F") /\ lastRequest'.returned.error.kind # "http"
            => /\ lastRequest'.returned.error.kind \in {"refused", "unreachable"}
                  => lastRequest'.response.status = 503
               /\ lastRequest'.returned.error.kind \notin {"refused", "unreachable"}
                  => lastRequest'.response.status = 500
               /\ lastRequest'.response.service = n
      ]_vars

(* C25: when the downstream answers with an error status, the response of  *)
(* the gateway has that status and that body, also when this failure opens *)
(* the breaker.                                                            *)
C25_DownstreamErrorRelayed ==
    [][\A s \in Slots, st \in ErrorStatuses :
         Settled(s, "F") /\ lastRequest'.operation = execThrow(HttpError(st))
         => /\ lastRequest'.response.status = st
            /\ lastRequest'.response.body = HttpError(st).data
      ]_vars

C25_Witness ==
    /\ lastRequest # NoRequest
    /\ \E st \in ErrorStatuses :
          /\ lastRequest.operation = execThrow(HttpError(st))
          /\ lastRequest.response.status = st
          /\ lastRequest.response.body = ErrorData(st)
    /\ IsOpen(lastRequest.serviceName)
    /\ circuitBreakers[lastRequest.serviceName].failureCount = FailureThreshold
    /\ circuitBreakers[lastRequest.serviceName].lastFailTime = now

-----------------------------------------------------------------------------
(* Claims about the routing of forwarded requests *)

(* the table of the public prefixes: service and internal prefix *)
PrefixTable ==
    {[public |-> <<"/api", "/users">>, internal |-> <<"/users">>,
      service |-> "user-service"],
     [public |-> <<"/api", "/auth">>, internal |-> <<"/auth">>,
      service |-> "user-service"],
     [public |-> <<"/api", "/items">>, internal |-> <<"/items">>,
      service |-> "item-service"],
     [public |-> <<"/api", "/categories">>, internal |-> <<"/categories">>,
      service |-> "item-service"],
     [public |-> <<"/api", "/lists">>, internal |-> <<"/lists">>,
      service |-> "list-service"]}

Forwarded == routed # NoRoute /\ routed.handler = "proxyToService"

Remainder(url, prefix) == SubSeq(url, Len(prefix) + 1, Len(url))

Starts(s) == inflight[s] = NoCall /\ inflight'[s] # NoCall

(* C27: every forwarded request is resolved against the registry as it is  *)
(* when the request is handled: a call goes to the url of the record that  *)
(* is there now, which is healthy, and a request is turned away without a *)
(* call only when there is no record now or the record is unhealthy now.   *)
C27_ResolvedPerRequest ==
    [][/\ \A s \in Slots :
            Starts(s)
            => LET n == inflight'[s].serviceName IN
               /\ services[n] # NoService
               /\ services[n].healthy
               /\ inflight'[s].url = services[n].url
       /\ \A n \in ServiceNames :
            DiscoveryFailed(n)
            => /\ services[n] = NoService \/ ~services[n].healthy
               /\ invocations' = invocations
      ]_vars

(* two calls to one name are pending, each at the url that was registered  *)
(* when it was made; the record has been re-registered in between          *)
C27_Witness ==
    \E s, t \in Slots :
       /\ inflight[s] # NoCall
       /\ inflight[t] # NoCall
       /\ inflight[s].serviceName = inflight[t].serviceName
       /\ inflight[s].url # inflight[t].url

-----------------------------------------------------------------------------
(* Claims about the gateway's own endpoints *)

Dashboard == handler # NoHandler /\ handler.kind = "dashboard"
Answered == handler # NoHandler /\ handler.pc = "done"
Unanswered == handler # NoHandler /\ handler.pc # "done"

(* the step is the one in which the request in hand enters the aggregation *)
AggregationStarts ==
    /\ handler' # NoHandler
    /\ handler'.aggregated
    /\ IF handler = NoHandler THEN TRUE
       ELSE ~handler.aggregated \/ (handler.pc = "done" /\ handler' # handler)

(* C28: the dashboard is aggregated only in the step in which the identity *)
(* service answers the validation of the same request's valid token; a     *)
(* request without bearer header, with a rejected token, or made while the *)
(* identity service cannot be reached is answered 401 with no aggregation  *)
(* call. No request enters the aggregation on arrival, whatever the one    *)
(* before it was answered.                                                 *)
C28_AggregationOnlyAfterValidation ==
    [][/\ AggregationStarts
          => /\ Unanswered
             /\ handler.kind = "dashboard"
             /\ handler.pc = "validating"
             /\ handler.token = "valid"
             /\ downstream["user-service"] = "up"
             /\ handler'.validation = "success"
       /\ handler' # NoHandler /\ handler'.kind = "dashboard"
          => /\ handler'.pc = "aggregating" => handler'.aggregated
             /\ handler'.pc = "done" /\ handler'.validation # "success"
                => /\ handler'.status = 401
                   /\ ~handler'.aggregated
                   /\ handler'.sections = NoSections
      ]_vars

(* a valid token is turned away because the identity service did not      *)
(* answer the validation                                                   *)
C28_Witness ==
    /\ Dashboard
    /\ Answered
    /\ handler.token = "valid"
    /\ handler.validation \in {"refused", "timeout", "undiscovered"}
    /\ handler.status = 401
    /\ ~handler.aggregated

(* C29: every request the gateway has taken in is answered in the end,     *)
(* also when a downstream accepts the connection and never answers,        *)
(* because every call it awaits has a timeout.                             *)
C29_EveryRequestAnswered == Unanswered ~> Answered

(* a valid dashboard request made, and handled to its end, while the named *)
(* service alone was unregistered, unhealthy or not answering              *)
ServedWithOnlyDown(n) ==
    /\ Dashboard
    /\ Answered
    /\ handler.token = "valid"
    /\ handler.oneDown = n

DegradedOnly(n) ==
    /\ handler.status = 200
    /\ handler.sections[n] = "unhealthy"
    /\ \A m \in AllServices \ {n} : handler.sections[m] = "healthy"
    /\ n # "list-service" => handler.userLists = "filled"

OwnedFields(n) ==
    IF n = "user-service" THEN {"totalUsers"}
    ELSE IF n = "item-service" THEN {"totalItems", "activeItems", "categories"}
    ELSE {"totalLists", "activeLists", "userLists"}

(* C31: in a dashboard result every summary field of a section that is     *)
(* marked unhealthy is 0, whichever call of the section failed.            *)
C31_UnhealthyContributesZero ==
    Dashboard /\ Answered /\ handler.status = 200
    => \A n \in AllServices :
          handler.sections[n] = "unhealthy"
          => \A f \in OwnedFields(n) : handler.summary[f] = 0

Search == handler # NoHandler /\ handler.kind = "search"

(* C32: a global search calls only the services of its selector: none but  *)
(* the item service for 'items', not the item service for 'lists'; the     *)
(* lists category is never filled, no caller of the search being           *)
(* authenticated.                                                          *)
C32_SearchFansOutBySelector ==
    Search
    => /\ handler.type = "items" => handler.called \subseteq {"item-service"}
       /\ handler.type = "lists" => "item-service" \notin handler.called
       /\ "list-service" \notin handler.called
       /\ handler.lists \in {"none", "empty"}

C32_Witness ==
    /\ Search
    /\ Answered
    /\ handler.type = "lists"
    /\ handler.q = "leite"
    /\ handler.status = 200
    /\ handler.called = {}
    /\ handler.lists = "empty"

(* C33: a search with a non-empty q is answered 200 whatever the state of  *)
(* the downstreams; the category of a downstream that is unregistered,     *)
(* unhealthy, refusing or silent is an empty list.                         *)
C33_SearchAlwaysAnswers200 ==
    [][handler' # handler /\ handler' # NoHandler /\ handler'.kind = "search"
       /\ handler'.pc = "done" /\ handler'.q = "leite"
       => /\ handler'.status = 200
          /\ handler'.lists = "empty"
          /\ handler'.items \in {"empty", "filled"}
          /\ handler'.items = "filled"
             => /\ handler'.type \in {"all", "items"}
                /\ handler # NoHandler
                /\ handler.pc = "searching"
                /\ downstream["item-service"] = "up"
      ]_vars

C33_Witness ==
    /\ Search
    /\ Answered
    /\ handler.q = "leite"
    /\ handler.called = {"item-service"}
    /\ downstream["item-service"] = "silent"
    /\ handler.status = 200
    /\ handler.items = "empty"

(* the step is one of a dashboard or search handler *)
HandlerStep == handler' # handler

(* the step fills the section of n in the dashboard in hand *)
SectionSettles(n) ==
    /\ handler' # NoHandler
    /\ handler'.kind = "dashboard"
    /\ handler'.sections[n] # "none"
    /\ IF handler = NoHandler THEN TRUE
       ELSE handler.pc = "done" \/ handler.sections[n] = "none"

(* C34: no step of a dashboard or search handler changes a breaker, a      *)
(* failed call of theirs included, and none looks at one: with the service *)
(* discoverable, a section is filled only by the outcome of its own call,  *)
(* open breaker or not.                                                    *)
C34_AggregationBypassesBreaker ==
    [][HandlerStep
       => /\ circuitBreakers' = circuitBreakers
          /\ \A n \in ServiceNames :
                SectionSettles(n)
                => /\ handler # NoHandler
                   /\ handler.call # NoCall
                   /\ handler.call.serviceName = n
      ]_vars

(* the breaker of item-service was open when the dashboard request came    *)
(* in; its calls were made all the same: the first was answered, the       *)
(* second refused, and the breaker is as it was                            *)
C34_Witness ==
    /\ Dashboard
    /\ Answered
    /\ "item-service" \in handler.open
    /\ handler.summary["totalItems"] = Reported
    /\ handler.sections["item-service"] = "unhealthy"
    /\ IsOpen("item-service")
    /\ circuitBreakers["item-service"].failureCount = FailureThreshold

(* a response is sent on the connection in this step *)
ListReplied(c) == listReply'[c] # listReply[c]

(* the response sent in this step answers a request that addresses, by    *)
(* its id, a stored list of another user than the caller                  *)
ToNonOwner(c) ==
    /\ ListReplied(c)
    /\ listReply'[c].op \in ByIdOps
    /\ stored(lists[listReply'[c].id])
    /\ lists[listReply'[c].id].userId # listReply'[c].user

(* the handler on the connection works on a request of another user than  *)
(* the owner of the stored list it addresses                              *)
ByNonOwner(c) ==
    /\ listOps[c] # NoOp
    /\ listOps[c].op \in ByIdOps
    /\ stored(lists[listOps[c].id])
    /\ lists[listOps[c].id].userId # listOps[c].user

(* GET /lists is answered with lists of the caller only *)
OwnListsOnly(c) ==
    ListReplied(c) /\ listReply'[c].op = "getLists" =>
        /\ listReply'[c].status = 200
        /\ \A i \in listReply'[c].returned :
              lists[i].userId = listReply'[c].user

(* C35: every operation that addresses a list by id, made by a user who   *)
(* is not the list's owner, is answered 403 and leaves the stored list    *)
(* unchanged, and GET /lists returns only the requester's lists.          *)
C35_NonOwnerAnswered403 ==
    [][\A c \in Connections :
          /\ ToNonOwner(c) =>
                listReply'[c].status = 403 /\ lists' = lists
          /\ ByNonOwner(c) => lists' = lists
          /\ OwnListsOnly(c)]_vars

(* C35, as the code has it: addItemToList validates the body before it    *)
(* reads the list, so a non-owner's add-item without itemId or quantity   *)
(* is answered 400; every other by-id request of a non-owner is answered  *)
(* 403; none is answered with the list or changes it, and GET /lists      *)
(* returns only the requester's lists.                                    *)
C35_NonOwnerRefused ==
    [][\A c \in Connections :
          /\ ToNonOwner(c) =>
                /\ listReply'[c].status =
                      IF /\ listReply'[c].op = "addItemToList"
                         /\ listReply'[c].value = "invalid"
                      THEN 400 ELSE 403
                /\ listReply'[c].returned = {}
                /\ lists' = lists
          /\ ByNonOwner(c) => lists' = lists
          /\ OwnListsOnly(c)]_vars

(* a non-owner's request to delete a list that holds an item has been     *)
(* answered 403, and the list is still stored                             *)
C35_Witness ==
    /\ listReply[1] # NoReply
    /\ listReply[1].op = "deleteList"
    /\ listReply[1].status = 403
    /\ stored(lists[listReply[1].id])
    /\ lists[listReply[1].id].userId # listReply[1].user
    /\ Len(lists[listReply[1].id].items) > 0

(* C36: the stored summary of every list has totalItems equal to the      *)
(* number of entries of items and purchasedItems equal to the number of   *)
(* entries whose purchased is true, hence purchasedItems <= totalItems.   *)
C36_SummaryMatchesItems ==
    \A i \in ListIds :
        stored(lists[i]) =>
            /\ lists[i].summary.totalItems = Len(lists[i].items)
            /\ lists[i].summary.purchasedItems =
                  Cardinality({k \in DOMAIN lists[i].items :
                                  lists[i].items[k].purchased = "true"})
            /\ lists[i].summary.purchasedItems
                  <= lists[i].summary.totalItems

(* the last responses on the two connections are both 201 to add-item     *)
(* requests of the owner for two different catalog items on one list      *)
BothAdded ==
    /\ listReply[1] # NoReply /\ listReply[2] # NoReply
    /\ listReply[1].op = "addItemToList" /\ listReply[1].status = 201
    /\ listReply[2].op = "addItemToList" /\ listReply[2].status = 201
    /\ listReply[1].id = listReply[2].id
    /\ listReply[1].itemId # listReply[2].itemId

(* C40: when two add-item requests of the owner for two different catalog *)
(* items on the same list were both answered 201, the stored list holds   *)
(* both items and its summary counts both, whatever the interleaving.     *)
C40_BothAddsStored ==
    BothAdded =>
        LET list == lists[listReply[1].id]
        IN  /\ findIndex(list.items, listReply[1].itemId) # 0
            /\ findIndex(list.items, listReply[2].itemId) # 0
            /\ list.summary.totalItems >= 2

(* C37: in every reachable breaker state, under any interleaving of       *)
(* concurrent calls for the same name, a closed breaker has counted at    *)
(* most 2 failures and an open or half-open one at least 3.               *)
C37_CountMatchesState ==
    \A n \in ServiceNames :
        IF circuitBreakers[n] = NoBreaker THEN TRUE
        ELSE /\ circuitBreakers[n].state = "closed" =>
                    circuitBreakers[n].failureCount <= FailureThreshold - 1
             /\ circuitBreakers[n].state \in {"open", "half-open"} =>
                    circuitBreakers[n].failureCount >= FailureThreshold

(* two calls for one name were in flight together and both failed: the    *)
(* second failure found the breaker open already                          *)
C37_Witness ==
    \E n \in ServiceNames :
        IF circuitBreakers[n] = NoBreaker THEN FALSE
        ELSE /\ circuitBreakers[n].state = "open"
             /\ circuitBreakers[n].failureCount = FailureThreshold + 1
             /\ invocations[n] = FailureThreshold + 1

(* the breaker of the name leaves half-open in this step *)
LeavesHalfOpen(n) ==
    IF circuitBreakers[n] = NoBreaker THEN FALSE
    ELSE /\ circuitBreakers[n].state = "half-open"
         /\ circuitBreakers'[n].state # "half-open"

(* a call for the name settles in this step that was admitted at or after *)
(* the breaker's transition to half-open: it started when the cooldown    *)
(* since the breaker's last failure had run out                           *)
TrialSettles(n) ==
    \E s \in Slots :
        /\ inflight[s] # NoCall
        /\ inflight'[s] = NoCall
        /\ inflight[s].serviceName = n
        /\ CooldownElapsed(circuitBreakers[n], inflight[s].start)

(* C38: a breaker leaves half-open only through the outcome of a call     *)
(* admitted at or after its transition to half-open; the late completion  *)
(* of a call admitted while it was closed never closes it.                *)
C38_HalfOpenLeftByTrialOnly ==
    [][\A n \in ServiceNames : LeavesHalfOpen(n) => TrialSettles(n)]_vars

(* the breaker has been closed by the success of one of two calls that    *)
(* were admitted while it was half-open; the other is still in flight     *)
C38_Witness ==
    \E n \in ServiceNames :
        IF circuitBreakers[n] = NoBreaker \/ hist[n] = << >> THEN FALSE
        ELSE /\ circuitBreakers[n].state = "closed"
             /\ hist[n][Len(hist[n])] = "S"
             /\ Cardinality({i \in DOMAIN hist[n] : hist[n][i] = "F"})
                    >= FailureThreshold
             /\ \E s \in Slots :
                   IF inflight[s] = NoCall THEN FALSE
                   ELSE inflight[s].serviceName = n

(* the record of the name is unhealthy, and the write that left it so is  *)
(* the updateHealth(name, false) of the gateway's sweep                   *)
MarkedBySweep(n) ==
    IF services[n] = NoService \/ lastWrite[n] = NoWrite THEN FALSE
    ELSE /\ ~services[n].healthy
         /\ lastWrite[n].op = "updateHealth"
         /\ lastWrite[n].pid = Gateway

(* the record of the name is healthy after the step *)
HealthyAgain(n) ==
    IF services'[n] = NoService THEN FALSE ELSE services'[n].healthy

(* C39: once the sweep has marked a record unhealthy, the record stays    *)
(* undiscoverable until a later probe of it succeeds or it is registered  *)
(* again: no other periodic action, such as the owning process's 30 s     *)
(* self-report, sets healthy back to true.                                *)
C39_UnhealthyUntilProbedOrRegistered ==
    [][\A n \in ServiceNames :
          MarkedBySweep(n) /\ HealthyAgain(n) =>
              \/ SweepProbes(n) /\ LastOutcome(sweep') = "ok"
              \/ lastWrite'[n].op = "register"]_vars

====
